---- MODULE Spec2Model ----
(***************************************************************************)
(* A model of the tokio-backed event loop for Python: the reactor          *)
(* (src/src/event_loop.rs), the HTTP request dispatcher                    *)
(* (src/src/http/pytransport.rs), the TCP transport task                   *)
(* (src/src/transport.rs) and the listening server (src/src/server.rs).    *)
(*                                                                         *)
(* Python code runs under the interpreter lock, so every method call is    *)
(* one atomic step.  The two run methods release the lock while they       *)
(* block in core.run; they are split in three steps: entry, wake-up of     *)
(* core.run, and the cleanup that follows it.                              *)
(***************************************************************************)
EXTENDS Integers, Sequences, FiniteSets, TLC

\* ------------------------------------------------------------------ bounds
\* Number of reactors (and cores) new_event_loop may create.
MaxLoops == 2
\* Number of call_soon submissions.
MaxCalls == 3
\* Number of request heads the decoder hands to one HTTP connection.
MaxReqs == 3
\* Number of close() calls on one HTTP transport.
MaxCloses == 2
\* Number of write() calls on the TCP transports, all connections together.
MaxWrites == 2
\* Number of chunks the peers send on the TCP connections, all together.
MaxChunks == 2
\* Number of close() calls on the TCP transports, all together.
MaxTcpCloses == 1
\* Number of addresses the lookup of create_server resolves to.
MaxAddrs == 2
\* Number of events on the listeners of the server, all together.
MaxAccepts == 2
\* Number of close() calls on the server.
MaxSrvCloses == 2
\* Number of timers scheduled with call_later and call_at.
MaxTimers == 2
\* Number of futures and tasks created.
MaxFutures == 2
\* Number of call_exception_handler outcomes (handler calls and log lines).
MaxHandlerCalls == 4
\* Number of resolutions getaddrinfo starts.
MaxLookups == 2
\* Number of entries in a resolver answer.
MaxEntries == 2
\* Number of resolutions create_connection starts.
MaxConnects == 1

\* OS threads that call into the reactor: the one that creates the first
\* reactor and a second one.
Threads == {"T1", "T2"}
Loops == 1..MaxLoops
\* CORE holds None.
NoCore == 0
\* _runner holds None.
NoRunner == "none"

VARIABLES
    core,       \* CORE, thread-local: the id of the Core in each thread's slot
    nloops,     \* reactors created so far; reactor l owns the core with id l
    lp,         \* per reactor: _runner (the thread whose receiver the sender
                \* feeds) and _debug
    th,         \* per thread: its position in a run method and that run's
                \* channels
    ready,      \* per core: the callbacks spawned on it and not yet fired
    submitted,  \* per core: every callback call_soon accepted, in order
    fired,      \* per core: the callbacks fired, in order
    ncalls,     \* call_soon submissions so far (the next callback's name)
    ret,        \* the last method call that returned, and its result
    http,       \* one HTTP connection: its PyHttpTransport and its consumer
    tcp,        \* per TCP connection: its TcpTransport task, its socket and
                \* what its consumer and its peer have seen
    srv,        \* one TokioServer: its stop handles and its accept loops
    clk,        \* the reactor's clock and the timers scheduled on it
    exh,        \* per reactor: the _exception_handler slot and its use
    dns         \* the resolutions started by getaddrinfo and create_connection,
                \* each with the future handed to the caller

\* The reactor's variables, and those of the connections.
loopvars == <<core, nloops, lp, th, ready, submitted, fired, ncalls, ret>>
netvars == <<http, tcp, srv, clk, exh, dns>>
vars == <<core, nloops, lp, th, ready, submitted, fired, ncalls, ret, http, tcp,
          srv, clk, exh, dns>>

\* const CONCURENCY_LEVEL
CONCURENCY_LEVEL == 1

\* PyHttpTransport::new: no request counted, none in flight, none queued.
\* The other fields record what the connection's consumer and transport
\* have been handed: requests parsed (named 1, 2, ... in arrival order),
\* requests passed to the data_received callback, handle_request
\* invocations started, those still running, messages sent to the
\* transport task, connection_lost notifications.
NewHttp ==
    [req_count |-> 0, inflight |-> 0, reqs |-> <<>>,
     parsed |-> 0, delivered |-> <<>>, started |-> <<>>, running |-> {},
     sent |-> <<>>, lost |-> <<>>, open |-> TRUE]

\* The TCP connections: one, and a sibling on the same reactor.
Conns == {1, 2}
\* TcpTransportMessage::Close in the intake queue; Bytes(b) is written b,
\* the buffers of a connection being named 1, 2, ... in submission order.
CloseMsg == 0
\* TcpTransport.buf holds None.
NoBuf == 0

\* TcpTransport::new behind a connected socket: nothing pending, no flag
\* set.  intake, buf, incoming_eof and flushed are the fields of the
\* task; sink is what framed.start_send accepted, in order, and wire how
\* many of these buffers poll_complete has written to the socket; inq are
\* the chunks that arrived and were not read yet, peer_eof the peer's
\* shutdown, sockerr the I/O error the socket is in; received is what
\* data_received was called with and lost what connection_lost was called
\* with; nw, nc, ncl count the write() calls, the chunks sent and the
\* close() calls, wclose is the
\* number of write() calls that preceded the first close() (none yet: -1);
\* dres is, for the latest future of drain() that got its result, the number
\* of written buffers that were not on the socket at that moment (no future
\* resolved yet: -1).
NewTcp ==
    [intake |-> <<>>, buf |-> NoBuf, incoming_eof |-> FALSE, flushed |-> FALSE,
     sink |-> <<>>, wire |-> 0,
     inq |-> <<>>, peer_eof |-> FALSE, sockerr |-> "none",
     received |-> <<>>, lost |-> <<>>, running |-> TRUE,
     nw |-> 0, nc |-> 0, ncl |-> 0, wclose |-> -1, dres |-> -1]

\* The addresses a lookup resolves to, in the order of the lookup.
Addrs == 1..MaxAddrs

\* An accept loop that was not spawned: state is the position of the Server
\* future ("none": not spawned, "serving", or how it ended: "stopped",
\* "exhausted", "failed"); open whether the listener socket is open; token
\* what its stop receiver will see ("armed": the sender is held by the
\* TokioServer, "sent", "dropped"); nsig the signals sent to the token; queue
\* what the listener will yield, in order; accepted the connections whose
\* transport was built; logged the errors the loop logged.
NoAcceptLoop ==
    [state |-> "none", open |-> FALSE, token |-> "none", nsig |-> 0,
     queue |-> <<>>, accepted |-> 0, logged |-> 0]

\* No TokioServer yet.  created is the result of create_server; some and set
\* are stop_handles (Some(handles) or None); ncl, nev count the close()
\* calls and the listener events.
NewSrv ==
    [created |-> "none", some |-> FALSE, set |-> {},
     lst |-> [i \in Addrs |-> NoAcceptLoop], ncl |-> 0, nev |-> 0]

\* Elapsed times of the reactor's Instant at which the model looks at the
\* clock, in increasing order: whole seconds and nanoseconds of the Duration.
Instants ==
    << [secs |-> 0, nanos |-> 0],         [secs |-> 0, nanos |-> 999999],
       [secs |-> 0, nanos |-> 1000000],   [secs |-> 0, nanos |-> 500000000],
       [secs |-> 0, nanos |-> 999999999], [secs |-> 1, nanos |-> 0],
       [secs |-> 1, nanos |-> 500000000], [secs |-> 2, nanos |-> 0] >>

\* A reactor just created: at is the position of the clock in Instants;
\* tres and mres are the last results of time(), in millionths, and of
\* millis() (none yet: -1); timers are the timers scheduled on the handle, in
\* the order of the calls; nfut and ntask count the futures and tasks
\* created.
NewClk ==
    [at |-> 1, tres |-> -1, mres |-> -1, timers |-> <<>>, nfut |-> 0, ntask |-> 0]

\* TokioEventLoop::create_instance: _exception_handler holds py.None().
\* logged and called count what call_exception_handler did.
NewExh == [handler |-> "None", logged |-> 0, called |-> 0]

\* A thread that executes no run method.
IdleThread ==
    [pc |-> "idle", loop |-> 0, kind |-> "none", sigint |-> FALSE,
     rx |-> "none", sig |-> FALSE, status |-> "none",
     task |-> "none", done |-> FALSE, sends |-> 0]

\* TokioEventLoop::create_instance: no runner, debug off.
NewLoop == [runner |-> NoRunner, debug |-> FALSE]

Min(a, b) == IF a < b THEN a ELSE b

\* Python code runs on thread t: at top level, or in a callback that the
\* core fires while t blocks in core.run.
CanCall(t) == th[t].pc \in {"idle", "run"}

\* Python code runs on thread t outside any run method.
AtTopLevel(t) == th[t].pc = "idle"

\* CORE of thread t is mutably borrowed: t is inside the match on
\* cell.borrow_mut() of a run method.
Borrowed(t) == th[t].pc = "run"

\* A run method that takes the slot to hold a core without looking.
HasCoreAssumed(t) == TRUE

\* The match on *cell.borrow_mut() of a run method finds Some(core).
HasCore(t) == core[t] # NoCore

\* The core with id c has not been dropped.
Alive(c) == \E t \in Threads : core[t] = c

\* Dropping the Core in thread t's slot destroys the tasks spawned on it.
DropCore(t, q) == [c \in Loops |-> IF c = core[t] THEN <<>> ELSE q[c]]

Init ==
    /\ core = [t \in Threads |-> IF t = "T1" THEN 1 ELSE NoCore]
    /\ nloops = 1
    /\ lp = [l \in Loops |-> NewLoop]
    /\ th = [t \in Threads |-> IdleThread]
    /\ ready = [c \in Loops |-> <<>>]
    /\ submitted = [c \in Loops |-> <<>>]
    /\ fired = [c \in Loops |-> <<>>]
    /\ ncalls = 0
    /\ ret = [op |-> "new_event_loop", res |-> "ok"]
    /\ http = NewHttp
    /\ tcp = [c \in Conns |-> NewTcp]
    /\ srv = NewSrv
    /\ clk = NewClk
    /\ exh = [l \in Loops |-> NewExh]
    /\ dns = <<>>

\* ------------------------------------------------------------ the reactor

\* new_event_loop on thread t: the new Core replaces the one in the
\* thread's slot.  A call from a callback panics at cell.borrow_mut(), CORE
\* being borrowed by the run method, before anything is stored; it is no
\* step here.
new_event_loop(t) ==
    /\ AtTopLevel(t)
    /\ nloops < MaxLoops
    /\ nloops' = nloops + 1
    /\ core' = [core EXCEPT ![t] = nloops + 1]
    /\ lp' = [lp EXCEPT ![nloops + 1] = NewLoop]
    /\ ready' = DropCore(t, ready)
    /\ ret' = [op |-> "new_event_loop", res |-> "ok"]
    /\ UNCHANGED <<netvars, th, submitted, fired, ncalls>>

\* A stop() that reads the run token and leaves it in place.
TakeRunnerLeaves(l) == lp

\* self._runner.borrow_mut().take() of stop().
TakeRunner(l) == [lp EXCEPT ![l].runner = NoRunner]

\* tx.send(true) of stop(): the value reaches the receiver if the thread
\* that holds it still waits in core.run; the send is counted either way.
SendStop(l) ==
    LET r == lp[l].runner IN
    IF r = NoRunner THEN th
    ELSE [th EXCEPT ![r].rx = IF th[r].pc = "run" /\ @ = "open"
                              THEN "sent" ELSE @,
                    ![r].sends = Min(@ + 1, 2)]

\* What stop() returns.
StopResult(l) == IF lp[l].runner # NoRunner THEN "true" ELSE "false"

stop(t, l) ==
    /\ CanCall(t)
    /\ l \in 1..nloops
    /\ lp' = TakeRunner(l)
    /\ th' = SendStop(l)
    /\ ret' = [op |-> "stop", res |-> StopResult(l)]
    /\ UNCHANGED <<netvars, core, nloops, ready, submitted, fired, ncalls>>

is_running(t, l) ==
    /\ CanCall(t)
    /\ l \in 1..nloops
    /\ ret' = [op |-> "is_running",
               res |-> IF lp[l].runner # NoRunner THEN "true" ELSE "false"]
    /\ UNCHANGED <<netvars, core, nloops, lp, th, ready, submitted, fired, ncalls>>

\* What is_closed() returns on thread t: cell.is_some() when CORE can be
\* borrowed, true when it cannot.
IsClosedResult(t) ==
    IF Borrowed(t) THEN "true"
    ELSE IF core[t] # NoCore THEN "true" ELSE "false"

is_closed(t, l) ==
    /\ CanCall(t)
    /\ l \in 1..nloops
    /\ ret' = [op |-> "is_closed", res |-> IsClosedResult(t)]
    /\ UNCHANGED <<netvars, core, nloops, lp, th, ready, submitted, fired, ncalls>>

\* close(): refused while the run token is present; otherwise takes the
\* Core out of the calling thread's slot.  cell.borrow_mut() panics when
\* the slot is borrowed by a run method of this thread.
CloseOutcome(t, l) ==
    IF lp[l].runner # NoRunner THEN "running_error"
    ELSE IF Borrowed(t) THEN "panic"
    ELSE "ok"

close(t, l) ==
    /\ CanCall(t)
    /\ l \in 1..nloops
    /\ ret' = [op |-> "close", res |-> CloseOutcome(t, l)]
    /\ IF CloseOutcome(t, l) = "ok"
       THEN /\ core' = [core EXCEPT ![t] = NoCore]
            /\ ready' = DropCore(t, ready)
       ELSE UNCHANGED <<core, ready>>
    /\ UNCHANGED <<netvars, nloops, lp, th, submitted, fired, ncalls>>

\* *(self._runner).borrow_mut() = Some(tx) of a run method on thread t.
InstallRunner(t, l) == [lp EXCEPT ![l].runner = t]

\* Storing the new sender drops the one _runner held: the receiver paired
\* with it, if a thread still polls it, yields Canceled.
DropOldSender(l) ==
    LET r == lp[l].runner IN
    IF r = NoRunner THEN th
    ELSE [th EXCEPT ![r].rx = IF th[r].pc = "run" /\ @ = "open"
                              THEN "cancelled" ELSE @]

\* run_forever(stop_on_sigint = s) up to the point where it blocks in
\* core.run.  With no Core in the thread's slot nothing is installed and
\* the method goes on to its cleanup with RunStatus::NoEventLoop.  A call
\* from a callback panics at cell.borrow_mut() before anything is stored;
\* it is no step here.
run_forever(t, l, s) ==
    /\ AtTopLevel(t)
    /\ l \in 1..nloops
    /\ IF ~HasCore(t)
       THEN /\ th' = [th EXCEPT ![t] = [IdleThread EXCEPT
                        !.pc = "woken", !.loop = l, !.kind = "forever",
                        !.status = "NoEventLoop"]]
            /\ UNCHANGED <<lp, ret>>
       ELSE /\ lp' = InstallRunner(t, l)
            /\ th' = [DropOldSender(l) EXCEPT ![t] = [IdleThread EXCEPT
                        !.pc = "run", !.loop = l, !.kind = "forever",
                        !.sigint = s, !.rx = "open"]]
            /\ UNCHANGED ret
    /\ UNCHANGED <<netvars, core, nloops, ready, submitted, fired, ncalls>>

\* run_until_complete(future) up to the point where it blocks; k is the
\* state of the awaitable at the call.  fut.add_callback sends on the done
\* channel when the task completes (at once if it already has).  The
\* ctrl_c stream is always registered.  A call from a callback panics at
\* cell.borrow_mut() before anything is stored; it is no step here.
run_until_complete(t, l, k) ==
    /\ AtTopLevel(t)
    /\ l \in 1..nloops
    /\ k \in {"pending", "ok", "err"}
    /\ IF ~HasCore(t)
       THEN /\ ret' = [op |-> "run_until_complete", res |-> "no_loop"]
            /\ UNCHANGED <<lp, th>>
       ELSE /\ lp' = InstallRunner(t, l)
            /\ th' = [DropOldSender(l) EXCEPT ![t] = [IdleThread EXCEPT
                        !.pc = "run", !.loop = l, !.kind = "until_complete",
                        !.sigint = TRUE, !.rx = "open",
                        !.task = k, !.done = (k # "pending")]]
            /\ UNCHANGED ret
    /\ UNCHANGED <<netvars, core, nloops, ready, submitted, fired, ncalls>>

\* The task of a run_until_complete call finishes, with a result or with
\* an error; its done callback sends on the done channel.  The task was
\* spawned through the reactor's own handle, so it advances only while
\* some thread drives that reactor's core.
task_complete(t, k) ==
    /\ th[t].pc = "run"
    /\ th[t].kind = "until_complete"
    /\ th[t].task = "pending"
    /\ k \in {"ok", "err"}
    /\ \E u \in Threads : th[u].pc = "run" /\ core[u] = th[t].loop
    /\ th' = [th EXCEPT ![t].task = k, ![t].done = TRUE]
    /\ UNCHANGED <<netvars, core, nloops, lp, ready, submitted, fired, ncalls, ret>>

\* An external interrupt (SIGINT) arrives while a run method blocks.  It
\* is seen by the ctrl_c streams registered at that moment.
interrupt ==
    /\ \E t \in Threads : th[t].pc = "run" /\ ~th[t].sig
    /\ th' = [t \in Threads |->
                IF th[t].pc = "run" THEN [th[t] EXCEPT !.sig = TRUE]
                ELSE th[t]]
    /\ UNCHANGED <<netvars, core, nloops, lp, ready, submitted, fired, ncalls, ret>>

\* A core.run that returns without waiting for anything.
RunReadyAtOnce(t) == TRUE

\* A run_forever that waits for the ctrl_c stream whatever stop_on_sigint.
RunReadyAnyInterrupt(t) ==
    \/ th[t].rx \in {"sent", "cancelled"}
    \/ th[t].sig
    \/ th[t].kind = "until_complete" /\ th[t].done

\* The future handed to core.run is ready.  run_forever waits for
\* rx.select2(ctrlc) when stop_on_sigint is set and for rx alone
\* otherwise; run_until_complete for rx.select2(done_rx).select2(ctrlc).
RunReady(t) ==
    \/ th[t].rx \in {"sent", "cancelled"}
    \/ th[t].sigint /\ th[t].sig
    \/ th[t].kind = "until_complete" /\ th[t].done

\* The RunStatus run_forever computes from what core.run returned:
\* select2 polls the receiver first.
RunStatusOf(t) ==
    IF th[t].rx = "sent" THEN "Stopped"
    ELSE IF th[t].rx = "cancelled" THEN "Error"
    ELSE "CtrlC"

\* core.run returns on thread t; the borrow of CORE ends and the
\* receivers are dropped.
core_run_returns(t) ==
    /\ th[t].pc = "run"
    /\ RunReady(t)
    /\ th' = [th EXCEPT ![t].pc = "woken",
                        ![t].status = IF th[t].kind = "forever"
                                      THEN RunStatusOf(t) ELSE "Returned"]
    /\ UNCHANGED <<netvars, core, nloops, lp, ready, submitted, fired, ncalls, ret>>

\* The match on res that ends run_forever.
ForeverResult(status) ==
    CASE status = "Stopped" -> "ok"
      [] status = "CtrlC" -> "ok"
      [] status = "Error" -> "runtime_error"
      [] OTHER -> "no_loop"

\* fut.result(py): the task's result, its error, or the error of a task
\* that is not done.
TaskResult(k) ==
    CASE k = "ok" -> "result"
      [] k = "err" -> "task_error"
      [] OTHER -> "invalid_state"

\* A run_forever that returns without its self.stop(py).
run_forever_returns_no_cleanup(t) ==
    /\ th[t].pc = "woken"
    /\ th[t].kind = "forever"
    /\ th' = [th EXCEPT ![t] = IdleThread]
    /\ ret' = [op |-> "run_forever",
               res |-> CASE th[t].status \in {"Stopped", "CtrlC"} -> "ok"
                         [] th[t].status = "Error" -> "runtime_error"
                         [] OTHER -> "no_loop"]
    /\ UNCHANGED <<netvars, core, nloops, lp, ready, submitted, fired, ncalls>>

\* The rest of run_forever: self.stop(py), then the result.
run_forever_returns(t) ==
    /\ th[t].pc = "woken"
    /\ th[t].kind = "forever"
    /\ lp' = TakeRunner(th[t].loop)
    /\ th' = [SendStop(th[t].loop) EXCEPT ![t] = IdleThread]
    /\ ret' = [op |-> "run_forever", res |-> ForeverResult(th[t].status)]
    /\ UNCHANGED <<netvars, core, nloops, ready, submitted, fired, ncalls>>

\* A run_until_complete that returns without its self.stop(py).
run_until_complete_returns_no_cleanup(t) ==
    /\ th[t].pc = "woken"
    /\ th[t].kind = "until_complete"
    /\ th' = [th EXCEPT ![t] = IdleThread]
    /\ ret' = [op |-> "run_until_complete", res |-> TaskResult(th[t].task)]
    /\ UNCHANGED <<netvars, core, nloops, lp, ready, submitted, fired, ncalls>>

\* The rest of run_until_complete: self.stop(py), then fut.result(py).
run_until_complete_returns(t) ==
    /\ th[t].pc = "woken"
    /\ th[t].kind = "until_complete"
    /\ lp' = TakeRunner(th[t].loop)
    /\ th' = [SendStop(th[t].loop) EXCEPT ![t] = IdleThread]
    /\ ret' = [op |-> "run_until_complete", res |-> TaskResult(th[t].task)]
    /\ UNCHANGED <<netvars, core, nloops, ready, submitted, fired, ncalls>>

\* set_debug(enabled).
set_debug(t, l, b) ==
    /\ CanCall(t)
    /\ l \in 1..nloops
    /\ lp' = [lp EXCEPT ![l].debug = b]
    /\ ret' = [op |-> "set_debug", res |-> "ok"]
    /\ UNCHANGED <<netvars, core, nloops, th, ready, submitted, fired, ncalls>>

\* thread_safe_check(py, &self.id) on thread t: no error when the calling
\* thread's slot holds the Core with the reactor's id, the thread-safety
\* error when it holds another Core or none.  cell.borrow() panics when
\* the slot is mutably borrowed by a run method of this thread.
thread_safe_check(t, l) ==
    IF Borrowed(t) THEN "panic"
    ELSE IF core[t] = l THEN "none"
    ELSE "thread_error"

\* The debug-mode guard that opens create_future, create_task, call_soon,
\* call_later and call_at: the error it returns, "none" when it lets the
\* call through.
DebugCheck(t, l) ==
    IF lp[l].debug THEN thread_safe_check(t, l) ELSE "none"

\* handle::call_soon on the handle of a dropped core: there is no event
\* loop to schedule on.
HandleClosed(l) == ~Alive(l)

\* A handle::call_soon that spawns the callback ahead of the waiting ones.
HandleCallSoonFirst(l, q, cb) ==
    [q EXCEPT ![l] = <<cb>> \o @]

\* handle::call_soon: the callback is spawned on the core the reactor's
\* handle points to, behind the callbacks already spawned there.
HandleCallSoon(l, q, cb) ==
    [q EXCEPT ![l] = Append(@, cb)]

\* call_soon(callback, *args): callbacks are named in submission order.
call_soon(t, l) ==
    /\ CanCall(t)
    /\ l \in 1..nloops
    /\ ncalls < MaxCalls
    /\ IF DebugCheck(t, l) # "none"
       THEN /\ ret' = [op |-> "call_soon", res |-> DebugCheck(t, l)]
            /\ UNCHANGED <<ready, submitted, ncalls>>
       ELSE IF HandleClosed(l)
       THEN /\ ret' = [op |-> "call_soon", res |-> "no_loop"]
            /\ UNCHANGED <<ready, submitted, ncalls>>
       ELSE /\ ret' = [op |-> "call_soon", res |-> "handle"]
            /\ ncalls' = ncalls + 1
            /\ ready' = HandleCallSoon(l, ready, ncalls + 1)
            /\ submitted' = [submitted EXCEPT ![l] = Append(@, ncalls + 1)]
    /\ UNCHANGED <<netvars, core, nloops, lp, th, fired>>

\* The callback the core fires next: the oldest one spawned on it.
NextCallback(q) == Head(q)

\* One turn of the core that thread t drives inside core.run: the next
\* spawned callback fires.
core_turn(t) ==
    /\ th[t].pc = "run"
    /\ core[t] # NoCore
    /\ ready[core[t]] # <<>>
    /\ fired' = [fired EXCEPT ![core[t]] = Append(@, NextCallback(ready[core[t]]))]
    /\ ready' = [ready EXCEPT ![core[t]] = Tail(@)]
    /\ UNCHANGED <<netvars, core, nloops, lp, th, submitted, ncalls, ret>>

\* ------------------------------------------------- the HTTP dispatcher

\* io::ErrorKind of the error that ends a connection.
ErrorKinds ==
    {"TimedOut", "BrokenPipe", "ConnectionRefused", "ConnectionAborted",
     "ConnectionReset", "Interrupted", "Other"}

\* A ToPyErr that reports every io::Error as a plain OSError.
to_pyerr_unclassified(kind) == "OSError"

\* ToPyErr for io::Error: the exception class chosen for an error kind.
to_pyerr(kind) ==
    CASE kind = "BrokenPipe" -> "BrokenPipeError"
      [] kind = "ConnectionRefused" -> "ConnectionRefusedError"
      [] kind = "ConnectionAborted" -> "ConnectionAbortedError"
      [] kind = "ConnectionReset" -> "ConnectionResetError"
      [] kind = "Interrupted" -> "InterruptedError"
      [] OTHER -> "OSError"

\* The connection's task still runs: it hands decoded messages to
\* data_received and has not yet reported the end of the connection.
HttpOpen == http.open

\* The Message arm of data_received up to its first return: the request
\* object is built and passed to the consumer's data_received callback
\* (ok), or PyRequest::new fails and the error is logged.  Nothing else of
\* the transport changes.
MessageArm(ok) ==
    [http EXCEPT !.parsed = @ + 1,
                 !.delivered = IF ok THEN Append(@, http.parsed + 1) ELSE @]

\* The statements of the Message arm that follow `return Ok(Some(recv))`:
\* count the request, start its handler task if a slot is free, queue it
\* otherwise.  No execution reaches them.
DispatchAfterReturn(h, i) ==
    IF h.inflight < CONCURENCY_LEVEL
    THEN [h EXCEPT !.req_count = @ + 1, !.inflight = @ + 1,
                   !.started = Append(@, i), !.running = @ \cup {i}]
    ELSE [h EXCEPT !.req_count = @ + 1, !.reqs = Append(@, i)]

\* PyHttpTransport::data_received(msg) for a request head.
data_received_message(ok) ==
    /\ HttpOpen
    /\ http.parsed < MaxReqs
    /\ http' = MessageArm(ok)
    /\ UNCHANGED <<loopvars, tcp, srv, clk, exh, dns>>

\* PyHttpTransport::data_received(msg) for a body chunk or the end of a
\* message: both arms are empty.
data_received_other(m) ==
    /\ HttpOpen
    /\ m \in {"Body", "Completed"}
    /\ http' = http
    /\ UNCHANGED <<loopvars, tcp, srv, clk, exh, dns>>

\* RequestHandler::poll when the handler task of request i is ready: the
\* oldest queued request takes the slot, or the slot is freed.  A
\* RequestHandler is built only by the unreached part of data_received.
RequestHandler_poll(h, i) ==
    IF h.reqs # <<>>
    THEN [h EXCEPT !.reqs = Tail(@),
                   !.running = (@ \ {i}) \cup {Head(h.reqs)},
                   !.started = Append(@, Head(h.reqs))]
    ELSE [h EXCEPT !.inflight = @ - 1, !.running = @ \ {i}]

\* The statements that follow the first return, up to the `?` on
\* RequestHandler::new, when start_task fails: the request has been
\* counted and inflight incremented, and no task is spawned.
DispatchStartFails(h) ==
    [h EXCEPT !.req_count = @ + 1, !.inflight = @ + 1]

\* RequestHandler::poll, Err arm: the error of the handler task is
\* dropped and the future resolves with Ok(()); nothing of the transport
\* is touched.  The handler task of request i is gone.
RequestHandler_poll_err(h, i) ==
    [h EXCEPT !.running = @ \ {i}]

\* RequestHandler::poll, Ready arm, when start_task of the popped request
\* fails: `?` returns the error, and the map_err closure of the spawn
\* sends Close(Some(err)) to the transport task.
RequestHandler_poll_start_fails(h, i) ==
    [h EXCEPT !.reqs = Tail(@), !.running = @ \ {i},
              !.sent = Append(@, "Close(err)")]

\* RequestHandler::poll of the handler of request i, by the result of
\* self.task.poll() and, when a queued request is popped, by whether its
\* start_task succeeds.  The self.poll() that follows a successful start
\* is the next application to the new task.
RequestHandler_poll_arms(h, i, res, ok) ==
    CASE res = "NotReady" -> h
      [] res = "Err" -> RequestHandler_poll_err(h, i)
      [] OTHER -> IF h.reqs # <<>> /\ ~ok
                  THEN RequestHandler_poll_start_fails(h, i)
                  ELSE RequestHandler_poll(h, i)

\* The Message arm of data_received continued past its first return: the
\* statements of lines 171-193 applied to the transport.  No call of
\* data_received gets there (see data_received_message); the step shows
\* what these statements do once entered.
dispatch_past_return(ok) ==
    /\ HttpOpen
    /\ http.parsed < MaxReqs
    /\ http' = IF http.inflight < CONCURENCY_LEVEL /\ ~ok
               THEN DispatchStartFails(MessageArm(TRUE))
               ELSE DispatchAfterReturn(MessageArm(TRUE), http.parsed + 1)
    /\ UNCHANGED <<loopvars, tcp, srv, clk, exh, dns>>

\* The reactor polls the RequestHandler spawned for request i.
handler_poll(i, res, ok) ==
    /\ i \in http.running
    /\ res \in {"Ready", "NotReady", "Err"}
    /\ http' = RequestHandler_poll_arms(http, i, res, ok)
    /\ UNCHANGED <<loopvars, tcp, srv, clk, exh, dns>>

\* PyHttpTransport.close(): Close(None) is sent to the transport task.
http_close ==
    /\ Len(http.sent) < MaxCloses
    /\ http' = [http EXCEPT !.sent = IF HttpOpen THEN Append(@, "Close(None)")
                                     ELSE @]
    /\ UNCHANGED <<loopvars, tcp, srv, clk, exh, dns>>

\* PyHttpTransport::connection_lost(): the pending queue is cleared and
\* the consumer's connection_lost is called with None.
http_connection_lost ==
    /\ HttpOpen
    /\ http' = [http EXCEPT !.reqs = <<>>, !.lost = Append(@, "None"),
                            !.open = FALSE]
    /\ UNCHANGED <<loopvars, tcp, srv, clk, exh, dns>>

\* PyHttpTransport::connection_error(err): the pending queue is cleared
\* and the consumer's connection_lost is called with socket.timeout for
\* TimedOut and with the exception of to_pyerr otherwise.
http_connection_error(kind) ==
    /\ HttpOpen
    /\ kind \in ErrorKinds
    /\ http' = [http EXCEPT !.reqs = <<>>,
                            !.lost = Append(@, IF kind = "TimedOut"
                                               THEN "socket.timeout"
                                               ELSE to_pyerr(kind)),
                            !.open = FALSE]
    /\ UNCHANGED <<loopvars, tcp, srv, clk, exh, dns>>

\* --------------------------------------------------- the TCP transport

\* write(), close() calls and chunks sent so far, all connections together.
TotalWrites == tcp[1].nw + tcp[2].nw
TotalCloses == tcp[1].ncl + tcp[2].ncl
TotalChunks == tcp[1].nc + tcp[2].nc

\* write() putting its buffer at the front of the intake queue.
tcp_write_front(c) ==
    /\ TotalWrites < MaxWrites
    /\ tcp' = [tcp EXCEPT ![c].nw = @ + 1,
                          ![c].intake = IF tcp[c].running
                                        THEN <<tcp[c].nw + 1>> \o @ ELSE @]
    /\ UNCHANGED <<loopvars, http, srv, clk, exh, dns>>

\* PyTcpTransport.write(data): Bytes(data) is sent to the intake queue.  A
\* send to the queue of a task that ended fails and the failure is ignored.
tcp_write(c) ==
    /\ TotalWrites < MaxWrites
    /\ tcp' = [tcp EXCEPT ![c].nw = @ + 1,
                          ![c].intake = IF tcp[c].running
                                        THEN Append(@, tcp[c].nw + 1) ELSE @]
    /\ UNCHANGED <<loopvars, http, srv, clk, exh, dns>>

\* close() putting Close at the front of the intake queue.
tcp_close_front(c) ==
    /\ TotalCloses < MaxTcpCloses
    /\ tcp' = [tcp EXCEPT ![c].ncl = @ + 1,
                          ![c].wclose = IF @ < 0 THEN tcp[c].nw ELSE @,
                          ![c].intake = IF tcp[c].running
                                        THEN <<CloseMsg>> \o @ ELSE @]
    /\ UNCHANGED <<loopvars, http, srv, clk, exh, dns>>

\* PyTcpTransport.close(): Close is sent to the intake queue.
tcp_close(c) ==
    /\ TotalCloses < MaxTcpCloses
    /\ tcp' = [tcp EXCEPT ![c].ncl = @ + 1,
                          ![c].wclose = IF @ < 0 THEN tcp[c].nw ELSE @,
                          ![c].intake = IF tcp[c].running
                                        THEN Append(@, CloseMsg) ELSE @]
    /\ UNCHANGED <<loopvars, http, srv, clk, exh, dns>>

\* PyTcpTransport.drain(): a future is created and given its result in the
\* same call.
tcp_drain(c) ==
    /\ tcp' = [tcp EXCEPT ![c].dres = tcp[c].nw - tcp[c].wire]
    /\ UNCHANGED <<loopvars, http, srv, clk, exh, dns>>

\* The peer sends a chunk: it waits in the socket until the task reads it.
peer_send(c) ==
    /\ tcp[c].running /\ ~tcp[c].peer_eof /\ tcp[c].sockerr = "none"
    /\ TotalChunks < MaxChunks
    /\ tcp' = [tcp EXCEPT ![c].nc = @ + 1, ![c].inq = Append(@, tcp[c].nc + 1)]
    /\ UNCHANGED <<loopvars, http, srv, clk, exh, dns>>

\* The peer shuts its side down: end-of-stream follows the chunks sent.
peer_shutdown(c) ==
    /\ tcp[c].running /\ ~tcp[c].peer_eof /\ tcp[c].sockerr = "none"
    /\ tcp' = [tcp EXCEPT ![c].peer_eof = TRUE]
    /\ UNCHANGED <<loopvars, http, srv, clk, exh, dns>>

\* The socket of connection c fails: the next operation that touches it
\* returns an io::Error of this kind.
io_error(c, kind) ==
    /\ tcp[c].running /\ tcp[c].sockerr = "none"
    /\ kind \in ErrorKinds
    /\ tcp' = [tcp EXCEPT ![c].sockerr = kind]
    /\ UNCHANGED <<loopvars, http, srv, clk, exh, dns>>

\* PyTcpTransport::connection_lost(): what the consumer's connection_lost
\* is called with.
tcp_connection_lost == "None"

\* PyTcpTransport::connection_error(err): socket.timeout for TimedOut, the
\* exception of to_pyerr otherwise.
tcp_connection_error(kind) ==
    IF kind = "TimedOut" THEN "socket.timeout" ELSE to_pyerr(kind)

\* A task that ends without telling the consumer.
TaskEndsSilent(s, note) ==
    [s EXCEPT !.running = FALSE]

\* The task spawned by tcp_transport_factory ends: map calls
\* connection_lost, map_err calls connection_error.  The TcpTransport is
\* dropped with whatever its sink has not written.
TaskEnds(s, note) ==
    [s EXCEPT !.running = FALSE, !.lost = Append(@, note)]

\* A read loop that delivers one chunk in a poll.
ReadLoopOneChunk(s) ==
    IF s.inq # <<>>
    THEN [s EXCEPT !.received = Append(@, Head(s.inq)), !.inq = Tail(@)]
    ELSE IF s.sockerr = "none" /\ s.peer_eof
    THEN [s EXCEPT !.incoming_eof = TRUE]
    ELSE s

\* The read loop of poll: every chunk the socket holds goes to
\* data_received; then the socket reports an error, end-of-stream or
\* nothing more for now.
ReadLoop(s) ==
    LET d == [s EXCEPT !.received = @ \o s.inq, !.inq = <<>>] IN
    IF s.sockerr = "none" /\ s.peer_eof
    THEN [d EXCEPT !.incoming_eof = TRUE]
    ELSE d

\* The write loop of poll.  The pending buffer is retried first, then
\* commands are taken from the intake queue; acc is the number of buffers
\* the sink still accepts in this poll, werr whether start_send fails.
\* The result says how the loop was left: "break", "closed" (return on
\* Close) or "err" (return on a start_send error).
RECURSIVE WriteLoop(_, _, _)

\* A write loop that serves the head of the queue before the held buffer.
WriteLoopQueueFirst(s, acc, werr) ==
    IF s.buf # NoBuf /\ s.intake # <<>> /\ Head(s.intake) # CloseMsg /\ acc > 0
    THEN WriteLoop([s EXCEPT !.intake = Tail(@), !.flushed = FALSE,
                             !.sink = Append(@, Head(s.intake))], acc - 1, werr)
    ELSE IF s.buf = NoBuf /\ s.intake = <<>>
    THEN [s |-> s, out |-> "break"]
    ELSE IF s.buf = NoBuf /\ Head(s.intake) = CloseMsg
    THEN [s |-> [s EXCEPT !.intake = Tail(@)], out |-> "closed"]
    ELSE LET b == IF s.buf # NoBuf THEN s.buf ELSE Head(s.intake)
             t == [s EXCEPT !.buf = NoBuf,
                            !.intake = IF s.buf # NoBuf THEN @ ELSE Tail(@),
                            !.flushed = FALSE]
         IN IF werr THEN [s |-> t, out |-> "err"]
            ELSE IF acc = 0 THEN [s |-> [t EXCEPT !.buf = b], out |-> "break"]
            ELSE WriteLoop([t EXCEPT !.sink = Append(@, b)], acc - 1, werr)

WriteLoop(s, acc, werr) ==
    IF s.buf = NoBuf /\ s.intake = <<>>
    THEN [s |-> s, out |-> "break"]
    ELSE IF s.buf = NoBuf /\ Head(s.intake) = CloseMsg
    THEN [s |-> [s EXCEPT !.intake = Tail(@)], out |-> "closed"]
    ELSE LET b == IF s.buf # NoBuf THEN s.buf ELSE Head(s.intake)
             t == [s EXCEPT !.buf = NoBuf,
                            !.intake = IF s.buf # NoBuf THEN @ ELSE Tail(@),
                            !.flushed = FALSE]
         IN IF werr THEN [s |-> t, out |-> "err"]
            ELSE IF acc = 0 THEN [s |-> [t EXCEPT !.buf = b], out |-> "break"]
            ELSE WriteLoop([t EXCEPT !.sink = Append(@, b)], acc - 1, werr)

\* The flush at the end of poll: poll_complete writes fl more buffers of
\* the sink to the socket and flushed becomes whether none is left; a
\* failed socket makes the write fail.
FlushSink(s, fl) ==
    IF s.flushed THEN s
    ELSE IF s.sockerr # "none" /\ s.wire < Len(s.sink)
    THEN TaskEnds(s, tcp_connection_error(s.sockerr))
    ELSE [s EXCEPT !.wire = Min(Len(s.sink), @ + fl),
                   !.flushed = (Min(Len(s.sink), s.wire + fl) = Len(s.sink))]

\* TcpTransport::poll.
TcpTransport_poll(s, acc, werr, fl) ==
    IF ~s.incoming_eof /\ s.sockerr # "none"
    THEN TaskEnds(ReadLoop(s), tcp_connection_error(s.sockerr))
    ELSE LET r == IF s.incoming_eof THEN s ELSE ReadLoop(s)
             w == WriteLoop(r, acc, werr)
         IN CASE w.out = "closed" -> TaskEnds(w.s, tcp_connection_lost)
              [] w.out = "err" -> TaskEnds(w.s, tcp_connection_error("Other"))
              [] OTHER -> FlushSink(w.s, fl)

\* The reactor polls the transport task of connection c.
tcp_poll(c, acc, werr, fl) ==
    /\ tcp[c].running
    /\ acc \in 0..MaxWrites /\ fl \in 0..MaxWrites
    /\ werr => tcp[c].sockerr # "none"
    /\ tcp' = [tcp EXCEPT ![c] = TcpTransport_poll(tcp[c], acc, werr, fl)]
    /\ UNCHANGED <<loopvars, http, srv, clk, exh, dns>>

\* ------------------------------------------------------------ the server

\* The address families of a lookup, and what happens to the socket of an
\* address: "ok", or the step that fails (TcpBuilder::new, bind, listen,
\* TcpListener::from_listener).
Families == {"Inet", "Inet6", "Other"}
SocketOutcomes == {"ok", "builder_err", "bind_err", "listen_err", "register_err"}

\* A loop over the lookup that keeps the listeners bound before a failure.
RECURSIVE ConfigureSocketsLeaky(_, _, _, _)
ConfigureSocketsLeaky(fam, out, i, listeners) ==
    IF i > MaxAddrs THEN [err |-> FALSE, listeners |-> listeners]
    ELSE IF fam[i] = "Other" \/ out[i] = "builder_err"
    THEN ConfigureSocketsLeaky(fam, out, i + 1, listeners)
    ELSE IF out[i] # "ok"
    THEN [err |-> FALSE, listeners |-> listeners]
    ELSE ConfigureSocketsLeaky(fam, out, i + 1, Append(listeners, i))

\* The loop of create_server over the lookup, from address i on: an address
\* of another family, or one whose TcpBuilder cannot be made, is skipped; a
\* failing bind, listen or from_listener returns the error, and the listeners
\* made so far are dropped with the vector; otherwise the listener is pushed.
RECURSIVE ConfigureSockets(_, _, _, _)
ConfigureSockets(fam, out, i, listeners) ==
    IF i > MaxAddrs THEN [err |-> FALSE, listeners |-> listeners]
    ELSE IF fam[i] = "Other" \/ out[i] = "builder_err"
    THEN ConfigureSockets(fam, out, i + 1, listeners)
    ELSE IF out[i] # "ok"
    THEN [err |-> TRUE, listeners |-> <<>>]
    ELSE ConfigureSockets(fam, out, i + 1, Append(listeners, i))

\* The elements of a sequence.
Range(q) == {q[i] : i \in 1..Len(q)}

\* Server::serve for every listener: a one-shot channel whose sender goes to
\* the handles and whose receiver goes to the spawned Server future.
ServeAll(listeners) ==
    [i \in Addrs |-> IF i \in Range(listeners)
                     THEN [NoAcceptLoop EXCEPT !.state = "serving", !.open = TRUE,
                                               !.token = "armed"]
                     ELSE NoAcceptLoop]

\* create_server(host, port, ...): lookup says whether the address lookup
\* succeeds, fam and out give the family of each address and the fate of its
\* socket.
create_server(lookup, fam, out) ==
    /\ srv.created = "none"
    /\ LET r == ConfigureSockets(fam, out, 1, <<>>) IN
       IF ~lookup \/ r.err
       THEN srv' = [srv EXCEPT !.created = "OSError"]
       ELSE srv' = [srv EXCEPT !.created = "ok", !.some = TRUE,
                               !.set = Range(r.listeners),
                               !.lst = ServeAll(r.listeners)]
    /\ UNCHANGED <<loopvars, http, tcp, clk, exh, dns>>

\* A close() that leaves the handles in the server.
TokioServer_close_keeps(s) ==
    IF s.some
    THEN [s EXCEPT !.lst = [i \in Addrs |->
                               IF i \in s.set
                               THEN [s.lst[i] EXCEPT !.token = "sent", !.nsig = @ + 1]
                               ELSE s.lst[i]]]
    ELSE s

\* TokioServer.close(): the handles are taken out of stop_handles and a
\* signal is sent on each; the result of send is ignored.
TokioServer_close(s) ==
    IF s.some
    THEN [s EXCEPT !.some = FALSE, !.set = {},
                   !.lst = [i \in Addrs |->
                               IF i \in s.set
                               THEN [s.lst[i] EXCEPT !.token = "sent", !.nsig = @ + 1]
                               ELSE s.lst[i]]]
    ELSE s

server_close ==
    /\ srv.created = "ok"
    /\ srv.ncl < MaxSrvCloses
    /\ srv' = [TokioServer_close(srv) EXCEPT !.ncl = @ + 1]
    /\ UNCHANGED <<loopvars, http, tcp, clk, exh, dns>>

\* The TokioServer object is deallocated: handles it still holds are
\* dropped unsent.
server_dealloc ==
    /\ srv.created = "ok" /\ srv.some
    /\ srv' = [srv EXCEPT !.some = FALSE, !.set = {},
                          !.lst = [i \in Addrs |->
                                      IF i \in srv.set
                                      THEN [srv.lst[i] EXCEPT !.token = "dropped"]
                                      ELSE srv.lst[i]]]
    /\ UNCHANGED <<loopvars, http, tcp, clk, exh, dns>>

\* What a listener yields next: a connection whose transport is built
\* ("conn"), one whose protocol factory fails ("badfactory"), one whose
\* protocol factory calls close() on the server ("closer"), an I/O error of
\* accept ("ioerr"), or the end of the stream ("eos").
ListenerEvents == {"conn", "badfactory", "closer", "ioerr", "eos"}

listener_event(i, e) ==
    /\ srv.lst[i].state = "serving"
    /\ srv.nev < MaxAccepts
    /\ e \in ListenerEvents
    /\ srv' = [srv EXCEPT !.nev = @ + 1, !.lst[i].queue = Append(@, e)]
    /\ UNCHANGED <<loopvars, http, tcp, clk, exh, dns>>

\* An end of one accept loop that ends every accept loop.
ServerEndsAll(s, i, how) ==
    [s EXCEPT !.lst = [j \in Addrs |->
                          IF s.lst[j].state = "serving"
                          THEN [s.lst[j] EXCEPT !.state = how, !.open = FALSE,
                                                !.logged = IF how = "failed" THEN @ + 1 ELSE @]
                          ELSE s.lst[j]]]

\* The Server future of listener i resolved: the future and its listener are
\* dropped; map_err logs an error.
ServerEnds(s, i, how) ==
    [s EXCEPT !.lst[i].state = how, !.lst[i].open = FALSE,
              !.lst[i].logged = IF how = "failed" THEN @ + 1 ELSE @]

\* An accept loop that looks at the listener before the stop token.
RECURSIVE AcceptLoopListenerFirst(_, _, _, _, _)
AcceptLoopListenerFirst(q, stopped, armed, acc, closed) ==
    IF q = <<>>
    THEN [how |-> IF stopped THEN "stopped" ELSE "serving",
          rest |-> q, acc |-> acc, closed |-> closed]
    ELSE CASE Head(q) = "ioerr" ->
                 [how |-> "failed", rest |-> Tail(q), acc |-> acc, closed |-> closed]
           [] Head(q) = "eos" ->
                 [how |-> "exhausted", rest |-> Tail(q), acc |-> acc, closed |-> closed]
           [] Head(q) = "badfactory" ->
                 [how |-> "failed", rest |-> Tail(q), acc |-> acc, closed |-> closed]
           [] Head(q) = "conn" ->
                 AcceptLoopListenerFirst(Tail(q), stopped, armed, acc + 1, closed)
           [] Head(q) = "closer" ->
                 AcceptLoopListenerFirst(Tail(q), stopped \/ armed, FALSE, acc + 1, TRUE)

\* The body of Server::poll on a listener that will yield q: stopped says that
\* the stop token is signalled or its sender dropped, armed that the sender
\* is among the server's handles, acc counts the transports built in this
\* poll, closed whether a protocol factory called close() on the server.
\* The stop token is looked at first, and ends the loop; then the listener:
\* an error ends the loop with the error; a connection goes to
\* accept_connection, whose error ends the loop too, and self.poll()
\* follows; the end of the stream ends the loop; otherwise NotReady.
RECURSIVE AcceptLoop(_, _, _, _, _)
AcceptLoop(q, stopped, armed, acc, closed) ==
    IF stopped
    THEN [how |-> "stopped", rest |-> q, acc |-> acc, closed |-> closed]
    ELSE IF q = <<>>
    THEN [how |-> "serving", rest |-> q, acc |-> acc, closed |-> closed]
    ELSE CASE Head(q) = "ioerr" ->
                 [how |-> "failed", rest |-> Tail(q), acc |-> acc, closed |-> closed]
           [] Head(q) = "eos" ->
                 [how |-> "exhausted", rest |-> Tail(q), acc |-> acc, closed |-> closed]
           [] Head(q) = "badfactory" ->
                 [how |-> "failed", rest |-> Tail(q), acc |-> acc, closed |-> closed]
           [] Head(q) = "conn" ->
                 AcceptLoop(Tail(q), stopped, armed, acc + 1, closed)
           [] Head(q) = "closer" ->
                 AcceptLoop(Tail(q), stopped \/ armed, FALSE, acc + 1, TRUE)

\* Server::poll of listener i, with what it did to the server: the close()
\* a protocol factory called, the connections taken from the listener, the
\* transports built, and the end of the loop.
Server_poll(s, i) ==
    LET r == AcceptLoop(s.lst[i].queue, s.lst[i].token \in {"sent", "dropped"},
                        s.some /\ i \in s.set, 0, FALSE)
        c == IF r.closed THEN TokioServer_close(s) ELSE s
        t == [c EXCEPT !.lst[i].queue = r.rest, !.lst[i].accepted = @ + r.acc]
    IN IF r.how = "serving" THEN t ELSE ServerEnds(t, i, r.how)

\* The reactor polls the accept loop of listener i.
server_poll(i) ==
    /\ srv.lst[i].state = "serving"
    /\ srv' = Server_poll(srv, i)
    /\ UNCHANGED <<loopvars, http, tcp, clk, exh, dns>>

\* ------------------------------------------------- futures and tasks

\* create_future() on thread t: the debug check, then PyFuture::new.
create_future(t, l) ==
    /\ CanCall(t)
    /\ l \in 1..nloops
    /\ clk.nfut + clk.ntask < MaxFutures
    /\ IF DebugCheck(t, l) # "none"
       THEN /\ ret' = [op |-> "create_future", res |-> DebugCheck(t, l)]
            /\ UNCHANGED clk
       ELSE /\ ret' = [op |-> "create_future", res |-> "future"]
            /\ clk' = [clk EXCEPT !.nfut = @ + 1]
    /\ UNCHANGED <<core, nloops, lp, th, ready, submitted, fired, ncalls,
                   http, tcp, srv, exh, dns>>

\* create_task(coro) on thread t: the debug check, then PyTask::new.
create_task(t, l) ==
    /\ CanCall(t)
    /\ l \in 1..nloops
    /\ clk.nfut + clk.ntask < MaxFutures
    /\ IF DebugCheck(t, l) # "none"
       THEN /\ ret' = [op |-> "create_task", res |-> DebugCheck(t, l)]
            /\ UNCHANGED clk
       ELSE /\ ret' = [op |-> "create_task", res |-> "task"]
            /\ clk' = [clk EXCEPT !.ntask = @ + 1]
    /\ UNCHANGED <<core, nloops, lp, th, ready, submitted, fired, ncalls,
                   http, tcp, srv, exh, dns>>

\* ------------------------------------------------------------- the clock

\* self.instant.elapsed() now.
Elapsed == Instants[clk.at]

\* Time passes.
clock_tick ==
    /\ clk.at < Len(Instants)
    /\ clk' = [clk EXCEPT !.at = @ + 1]
    /\ UNCHANGED <<loopvars, http, tcp, srv, exh, dns>>

\* time(): as_secs() as f64 + subsec_nanos() as f64 / 1_000_000.0, here
\* multiplied by 1 000 000 so that it is an integer.
TimeE6(e) == e.secs * 1000000 + e.nanos

\* millis(): as_secs() * 1000 + subsec_nanos() / 1_000_000, in integers.
Millis(e) == e.secs * 1000 + e.nanos \div 1000000

loop_time ==
    /\ clk' = [clk EXCEPT !.tres = TimeE6(Elapsed)]
    /\ UNCHANGED <<loopvars, http, tcp, srv, exh, dns>>

loop_millis ==
    /\ clk' = [clk EXCEPT !.mres = Millis(Elapsed)]
    /\ UNCHANGED <<loopvars, http, tcp, srv, exh, dns>>

\* ------------------------------------------------------------ the timers

\* The elapsed time in microseconds, the unit timers are kept in.
NowUs == Elapsed.secs * 1000000 + Elapsed.nanos \div 1000

\* Arguments given as delay or as absolute time: a Python int or float of so
\* many microseconds (an int is a whole number of seconds), or an object
\* that is no number.
DelayArgs ==
    { [type |-> "int", us |-> -1000000], [type |-> "int", us |-> 0],
      [type |-> "int", us |-> 1000000],
      [type |-> "float", us |-> -500000], [type |-> "float", us |-> 1500],
      [type |-> "float", us |-> 500000],
      [type |-> "str", us |-> 0] }

WhenArgs ==
    { [type |-> "int", us |-> 0], [type |-> "int", us |-> 1000000],
      [type |-> "float", us |-> 500000], [type |-> "float", us |-> 2500000],
      [type |-> "str", us |-> 0] }

\* utils::parse_millis: a float gives (val * 1000.0) as u64 when positive
\* and 0 otherwise, an int gives val * 1000 when not negative and 0
\* otherwise; the result is in milliseconds.  Anything else is a TypeError
\* (-1 here).
parse_millis(a) ==
    CASE a.type = "float" -> IF a.us > 0 THEN a.us \div 1000 ELSE 0
      [] a.type = "int" -> IF a.us < 0 THEN 0 ELSE (a.us \div 1000000) * 1000
      [] OTHER -> -1

\* utils::parse_seconds on a number that is not negative: the Duration of
\* that many seconds, here in microseconds.  Anything that is no number is
\* a TypeError (-1 here).
parse_seconds(a) ==
    CASE a.type = "float" -> a.us
      [] a.type = "int" -> (a.us \div 1000000) * 1000000
      [] OTHER -> -1

\* handle::call_later(when, callback): a timer that is due when the delay
\* has elapsed.
HandleCallLater(tms, delay_us) ==
    Append(tms, [due |-> NowUs + delay_us, st |-> "pending", nfire |-> 0])

\* call_later(delay, callback, *args) on thread t.
call_later(t, l, a) ==
    /\ CanCall(t)
    /\ l \in 1..nloops
    /\ a \in DelayArgs
    /\ Len(clk.timers) < MaxTimers
    /\ IF DebugCheck(t, l) # "none"
       THEN /\ ret' = [op |-> "call_later", res |-> DebugCheck(t, l)]
            /\ UNCHANGED clk
       ELSE IF parse_millis(a) < 0
       THEN /\ ret' = [op |-> "call_later", res |-> "type_error"]
            /\ UNCHANGED clk
       ELSE IF HandleClosed(l)
       THEN /\ ret' = [op |-> "call_later", res |-> "no_loop"]
            /\ UNCHANGED clk
       ELSE /\ ret' = [op |-> "call_later", res |-> "handle"]
            /\ clk' = [clk EXCEPT !.timers = HandleCallLater(@, parse_millis(a) * 1000)]
    /\ UNCHANGED <<core, nloops, lp, th, ready, submitted, fired, ncalls,
                   http, tcp, srv, exh, dns>>

\* when - self.instant.elapsed() in call_at: the subtraction of Durations
\* panics when the result would be negative (-1 here).
CallAtDelay(when_us) ==
    IF when_us < NowUs THEN -1 ELSE when_us - NowUs

\* call_at(when, callback, *args) on thread t, for a when that is not
\* negative.
call_at(t, l, a) ==
    /\ CanCall(t)
    /\ l \in 1..nloops
    /\ a \in WhenArgs
    /\ Len(clk.timers) < MaxTimers
    /\ IF DebugCheck(t, l) # "none"
       THEN /\ ret' = [op |-> "call_at", res |-> DebugCheck(t, l)]
            /\ UNCHANGED clk
       ELSE IF parse_seconds(a) < 0
       THEN /\ ret' = [op |-> "call_at", res |-> "type_error"]
            /\ UNCHANGED clk
       ELSE IF CallAtDelay(parse_seconds(a)) < 0
       THEN /\ ret' = [op |-> "call_at", res |-> "panic"]
            /\ UNCHANGED clk
       ELSE IF HandleClosed(l)
       THEN /\ ret' = [op |-> "call_at", res |-> "no_loop"]
            /\ UNCHANGED clk
       ELSE /\ ret' = [op |-> "call_at", res |-> "handle"]
            /\ clk' = [clk EXCEPT !.timers =
                          HandleCallLater(@, CallAtDelay(parse_seconds(a)))]
    /\ UNCHANGED <<core, nloops, lp, th, ready, submitted, fired, ncalls,
                   http, tcp, srv, exh, dns>>

\* The reactor fires timer k: it is due and was neither fired nor cancelled.
timer_fire(k) ==
    /\ k \in 1..Len(clk.timers)
    /\ clk.timers[k].st = "pending"
    /\ clk.timers[k].due <= NowUs
    /\ clk' = [clk EXCEPT !.timers[k].st = "fired", !.timers[k].nfire = @ + 1]
    /\ UNCHANGED <<loopvars, http, tcp, srv, exh, dns>>

\* A cancel() that puts the timer back to pending.
TimerCancelRearms(tm) ==
    [tm EXCEPT !.st = IF @ = "fired" THEN "pending" ELSE "cancelled"]

\* TokioTimerHandle.cancel() on a timer: a pending timer is cancelled, a
\* fired or cancelled one is left as it is.
TimerCancel(tm) ==
    IF tm.st = "pending" THEN [tm EXCEPT !.st = "cancelled"] ELSE tm

timer_cancel(k) ==
    /\ k \in 1..Len(clk.timers)
    /\ clk' = [clk EXCEPT !.timers[k] = TimerCancel(@)]
    /\ ret' = [op |-> "cancel", res |-> "ok"]
    /\ UNCHANGED <<core, nloops, lp, th, ready, submitted, fired, ncalls,
                   http, tcp, srv, exh, dns>>

\* ------------------------------------------------- the exception handler

\* What a caller can pass as a handler: None, two callables, and an object
\* that is neither.
Callables == {"h1", "h2"}
HandlerArgs == {"None", "obj"} \cup Callables

\* PyObject::is_callable: None is not callable.
is_callable(h) == h \in Callables

\* get_exception_handler(): a new reference to the stored object.
get_exception_handler(l) ==
    /\ l \in 1..nloops
    /\ ret' = [op |-> "get_exception_handler", res |-> exh[l].handler]
    /\ UNCHANGED <<core, nloops, lp, th, ready, submitted, fired, ncalls,
                   netvars>>

\* set_exception_handler(handler): anything that is not callable is a
\* TypeError; a callable replaces the stored object.
set_exception_handler(l, h) ==
    /\ l \in 1..nloops
    /\ IF ~is_callable(h)
       THEN /\ ret' = [op |-> "set_exception_handler", res |-> "type_error"]
            /\ UNCHANGED exh
       ELSE /\ exh' = [exh EXCEPT ![l].handler = h]
            /\ ret' = [op |-> "set_exception_handler", res |-> "ok"]
    /\ UNCHANGED <<core, nloops, lp, th, ready, submitted, fired, ncalls,
                   http, tcp, srv, clk, dns>>

\* call_exception_handler(context): with None stored the context is logged;
\* otherwise the handler is called, and an exception it raises is logged.
call_exception_handler(l, raises) ==
    /\ l \in 1..nloops
    /\ exh[l].called + exh[l].logged < MaxHandlerCalls
    /\ IF exh[l].handler = "None"
       THEN exh' = [exh EXCEPT ![l].logged = @ + 1]
       ELSE IF raises
            THEN exh' = [exh EXCEPT ![l].called = @ + 1, ![l].logged = @ + 1]
            ELSE exh' = [exh EXCEPT ![l].called = @ + 1]
    /\ ret' = [op |-> "call_exception_handler", res |-> "ok"]
    /\ UNCHANGED <<core, nloops, lp, th, ready, submitted, fired, ncalls,
                   http, tcp, srv, clk, dns>>

\* ------------------------------------------------------------ resolution

\* Keyword arguments of getaddrinfo: any subset of the three keys, each
\* bound to an integer.
KwKeys == {"family", "socktype", "flags"}
KwVal == [family |-> 2, socktype |-> 1, flags |-> 4]
Kwargs == {[k \in S |-> KwVal[k]] : S \in SUBSET KwKeys}

\* kwargs.get_item(key).map(extract).unwrap_or(Ok(0))
KwGet(kw, key) == IF key \in DOMAIN kw THEN kw[key] ELSE 0

\* The addresses a resolver answer is made of, and the answers: a list of
\* entries, the resolver's error, or the loss of the resolver's channel.
Entries == {[family |-> "v4", ip |-> "10.0.0.1"],
            [family |-> "v6", ip |-> "::1"]}
Answers ==
    {[kind |-> "ok", addrs |-> a] :
        a \in UNION {[1..n -> Entries] : n \in 0..MaxEntries}}
    \cup {[kind |-> "err", addrs |-> <<>>],
          [kind |-> "canceled", addrs |-> <<>>]}
NoAnswer == [kind |-> "none", addrs |-> <<>>]

\* One item of the list getaddrinfo answers with: the socket address is a
\* pair for IPv4 and a 4-tuple for IPv6.
AddrItem(info, port) ==
    [family |-> info.family,
     sockaddr |-> IF info.family = "v4"
                  THEN <<info.ip, port>>
                  ELSE <<info.ip, port, 0, 0>>]

\* A resolution as started, with the future handed to the caller unset.
Lookup(kind, host, port, family, flags, socktype, sname) ==
    [kind |-> kind, host |-> host, port |-> port, family |-> family,
     flags |-> flags, socktype |-> socktype, server_hostname |-> sname,
     answer |-> NoAnswer, fut |-> "pending", value |-> <<>>, nset |-> 0]

\* The request getaddrinfo hands to addrinfo::lookup: family and the socket
\* type are both read from the keyword "family".
GetaddrinfoLookup(host, port, kw) ==
    Lookup("getaddrinfo", host, port, KwGet(kw, "family"),
           KwGet(kw, "flags"), KwGet(kw, "family"), "")

\* getaddrinfo(host, port, **kwargs): the keywords are read, the future is
\* created, the lookup is started and its processing spawned.
getaddrinfo(l, host, port, kw) ==
    /\ l \in 1..nloops
    /\ Len(dns) < MaxLookups
    /\ dns' = Append(dns, GetaddrinfoLookup(host, port, kw))
    /\ ret' = [op |-> "getaddrinfo", res |-> "future"]
    /\ UNCHANGED <<core, nloops, lp, th, ready, submitted, fired, ncalls,
                   http, tcp, srv, clk, exh>>

\* PyFuture::set: a future that is still pending takes the result; the
\* callers here ignore what set returns.
FutureSet(e, state, value) ==
    IF e.fut = "pending"
    THEN [e EXCEPT !.fut = state, !.value = value, !.nset = @ + 1]
    ELSE e

\* The list getaddrinfo builds from the resolver's entries: each item is
\* inserted at the end.
AddrListFront(addrs, port) ==
    [i \in 1..Len(addrs) |-> AddrItem(addrs[Len(addrs) + 1 - i], port)]

AddrList(addrs, port) ==
    [i \in 1..Len(addrs) |-> AddrItem(addrs[i], port)]

\* The processing getaddrinfo spawns, run when the lookup completes.
GetaddrinfoProcess(e, ans) ==
    IF ans.kind = "canceled"
    THEN FutureSet(e, "runtime_error", <<>>)
    ELSE IF ans.kind = "err"
    THEN FutureSet(e, "error", <<>>)
    ELSE FutureSet(e, "result", AddrList(ans.addrs, e.port))

\* An argument left out of a call (None).
NoArg == "<none>"

\* The default of the flags parameter, and SocketType::Stream.
AI_PASSIVE == 1
SOCK_STREAM == 1

\* What a caller passes to create_connection; tls_ok is whether a TLS
\* connector can be built, which is tried only when ssl is given.
ConnArgs ==
    {a \in [host : {NoArg, "", "example"}, hasport : BOOLEAN, ssl : BOOLEAN,
            sock : BOOLEAN, server_hostname : {NoArg, "", "sni"},
            tls_ok : BOOLEAN] : a.ssl \/ a.tls_ok}

\* The checks of create_connection in the order the code makes them;
\* "future" when none of them returns an error.
ValidateSockUnchecked(a) ==
    IF a.server_hostname # NoArg /\ ~a.ssl THEN "value_error"
    ELSE IF a.server_hostname = NoArg /\ a.ssl /\ a.host = NoArg
    THEN "value_error"
    ELSE IF a.ssl /\ ~a.tls_ok THEN "os_error"
    ELSE IF a.host = NoArg /\ ~a.hasport THEN "value_error"
    ELSE "future"

Validate(a) ==
    IF a.server_hostname # NoArg /\ ~a.ssl THEN "value_error"
    ELSE IF a.server_hostname = NoArg /\ a.ssl /\ a.host = NoArg
    THEN "value_error"
    ELSE IF a.ssl /\ ~a.tls_ok THEN "os_error"
    ELSE IF a.host = NoArg /\ ~a.hasport THEN "value_error"
    ELSE IF a.sock THEN "value_error"
    ELSE "future"

\* The request create_connection hands to addrinfo::lookup, with the server
\* hostname kept for the TLS handshake: the one given, else the host.
ConnectLookup(a) ==
    LET host == IF a.host = NoArg THEN "" ELSE a.host
    IN  Lookup("connect", host, IF a.hasport THEN 80 ELSE 0, 0, AI_PASSIVE,
               SOCK_STREAM,
               IF a.server_hostname # NoArg THEN a.server_hostname ELSE host)

\* create_connection(protocol_factory, host, port, ssl, sock,
\* server_hostname): the checks, then the future, the lookup and the spawn
\* of the connecting task.
create_connection(l, a) ==
    /\ l \in 1..nloops
    /\ Validate(a) = "future" =>
           Cardinality({k \in 1..Len(dns) : dns[k].kind = "connect"})
               < MaxConnects
    /\ ret' = [op |-> "create_connection", res |-> Validate(a)]
    /\ dns' = IF Validate(a) = "future"
              THEN Append(dns, ConnectLookup(a))
              ELSE dns
    /\ UNCHANGED <<core, nloops, lp, th, ready, submitted, fired, ncalls,
                   http, tcp, srv, clk, exh>>

\* The connecting task create_connection spawns, run when the lookup
\* completes: a lost channel cancels the future, a resolver error and an
\* empty answer become its error, and a non-empty answer is passed on to
\* client::create_connection with the future still unset.
FutureCancel(e) ==
    IF e.fut = "pending" THEN [e EXCEPT !.fut = "cancelled", !.nset = @ + 1]
    ELSE e

ConnectProcessRaises(e, ans) ==
    IF ans.kind = "canceled" THEN FutureCancel(e)
    ELSE IF ans.kind = "err" THEN FutureSet(e, "error", <<>>)
    ELSE IF ans.addrs = <<>> THEN e
    ELSE [e EXCEPT !.fut = "connecting"]

ConnectProcess(e, ans) ==
    IF ans.kind = "canceled" THEN FutureCancel(e)
    ELSE IF ans.kind = "err" THEN FutureSet(e, "error", <<>>)
    ELSE IF ans.addrs = <<>> THEN FutureSet(e, "os_error", <<>>)
    ELSE [e EXCEPT !.fut = "connecting"]

\* The lookup of resolution k completes with answer ans, once, and the task
\* spawned on it runs.
lookup_done(k, ans) ==
    /\ k \in 1..Len(dns)
    /\ dns[k].answer = NoAnswer
    /\ dns' = [dns EXCEPT ![k] =
                 IF dns[k].kind = "getaddrinfo"
                 THEN GetaddrinfoProcess([dns[k] EXCEPT !.answer = ans], ans)
                 ELSE ConnectProcess([dns[k] EXCEPT !.answer = ans], ans)]
    /\ ret' = ret
    /\ UNCHANGED <<core, nloops, lp, th, ready, submitted, fired, ncalls,
                   http, tcp, srv, clk, exh>>

\* ------------------------------------------------------ specifications

\* The life cycle of reactors: creation, the run methods, stop and close.
NextRun ==
    \/ \E t \in Threads : new_event_loop(t)
    \/ \E t \in Threads, l \in Loops : stop(t, l)
    \/ \E t \in Threads, l \in Loops : is_running(t, l)
    \/ \E t \in Threads, l \in Loops : is_closed(t, l)
    \/ \E t \in Threads, l \in Loops : close(t, l)
    \/ \E t \in Threads, l \in Loops, s \in BOOLEAN : run_forever(t, l, s)
    \/ \E t \in Threads, l \in Loops, k \in {"pending", "ok", "err"} :
          run_until_complete(t, l, k)
    \/ \E t \in Threads, k \in {"ok", "err"} : task_complete(t, k)
    \/ interrupt
    \/ \E t \in Threads : core_run_returns(t)
    \/ \E t \in Threads : run_forever_returns(t)
    \/ \E t \in Threads : run_until_complete_returns(t)

SpecRun == Init /\ [][NextRun]_vars

\* Scheduling: call_soon on the first reactor, called from its own thread
\* and from a thread without a core, while the reactor is run, stopped and
\* closed, with the debug flag on or off.
NextSched ==
    \/ \E t \in Threads, l \in Loops, b \in BOOLEAN : set_debug(t, l, b)
    \/ \E t \in Threads, l \in Loops : call_soon(t, l)
    \/ \E t \in Threads : core_turn(t)
    \/ \E t \in Threads, l \in Loops : run_forever(t, l, FALSE)
    \/ \E t \in Threads, l \in Loops : stop(t, l)
    \/ \E t \in Threads, l \in Loops : close(t, l)
    \/ \E t \in Threads : core_run_returns(t)
    \/ \E t \in Threads : run_forever_returns(t)

SpecSched == Init /\ [][NextSched]_vars

\* One HTTP connection: request heads, body chunks and message ends
\* arrive, the consumer closes the transport, the connection ends cleanly
\* or with an I/O error.
NextHttp ==
    \/ \E ok \in BOOLEAN : data_received_message(ok)
    \/ \E m \in {"Body", "Completed"} : data_received_other(m)
    \/ http_close
    \/ http_connection_lost
    \/ \E kind \in ErrorKinds : http_connection_error(kind)

SpecHttp == Init /\ [][NextHttp]_vars

\* The dispatch statements of data_received and RequestHandler::poll taken
\* by themselves, from a new transport on.
NextDispatch ==
    \/ \E ok \in BOOLEAN : dispatch_past_return(ok)
    \/ \E i \in 1..MaxReqs, res \in {"Ready", "NotReady", "Err"}, ok \in BOOLEAN :
          handler_poll(i, res, ok)
    \/ http_close
    \/ http_connection_lost

SpecDispatch == Init /\ [][NextDispatch]_vars

\* One TCP connection: its consumer writes and closes, its peer sends and
\* shuts down, its socket fails, and the reactor polls its task; in each
\* poll the sink accepts any number of buffers and the flush writes any
\* number of them.
NextTcp ==
    \/ tcp_write(1)
    \/ tcp_close(1)
    \/ peer_send(1)
    \/ peer_shutdown(1)
    \/ \E kind \in {"TimedOut", "ConnectionReset"} : io_error(1, kind)
    \/ \E acc \in 0..MaxWrites, werr \in BOOLEAN, fl \in 0..MaxWrites :
          tcp_poll(1, acc, werr, fl)

SpecTcp == Init /\ [][NextTcp]_vars

\* One TCP connection whose consumer also awaits drain().
NextDrain ==
    \/ tcp_write(1)
    \/ tcp_drain(1)
    \/ tcp_close(1)
    \/ \E kind \in {"TimedOut", "ConnectionReset"} : io_error(1, kind)
    \/ \E acc \in 0..MaxWrites, werr \in BOOLEAN, fl \in 0..MaxWrites :
          tcp_poll(1, acc, werr, fl)

SpecDrain == Init /\ [][NextDrain]_vars

\* Two TCP connections on one reactor, their sockets writable whenever
\* polled.  Connection 1 is the one that is closed, shut down by its peer
\* or fails; connection 2 is the bystander that keeps exchanging data.
NextPair ==
    \/ \E c \in Conns : tcp_write(c)
    \/ \E c \in Conns : peer_send(c)
    \/ \E c \in Conns, werr \in BOOLEAN : tcp_poll(c, MaxWrites, werr, MaxWrites)
    \/ tcp_close(1)
    \/ peer_shutdown(1)
    \/ \E kind \in {"TimedOut", "ConnectionReset"} : io_error(1, kind)

SpecPair == Init /\ [][NextPair]_vars

\* create_server is called, once, with any lookup result.
create_server_call ==
    /\ srv.created = "none"
    /\ \E lookup \in BOOLEAN, fam \in [Addrs -> Families],
          out \in [Addrs -> SocketOutcomes] :
          create_server(lookup, fam, out)

\* One server: it is created, closed and deallocated, its listeners yield
\* connections and errors, and the reactor polls its accept loops.
NextServer ==
    \/ create_server_call
    \/ server_close
    \/ server_dealloc
    \/ \E i \in Addrs, e \in ListenerEvents : listener_event(i, e)
    \/ \E i \in Addrs : server_poll(i)

SpecServer == Init /\ [][NextServer]_vars

\* The clock of one reactor: time passes, and time() and millis() read it.
NextClock ==
    \/ clock_tick
    \/ loop_time
    \/ loop_millis

SpecClock == Init /\ [][NextClock]_vars

\* Timers on the first reactor: they are scheduled from its thread at any
\* time, fire when due and are cancelled at any time.
NextTimers ==
    \/ clock_tick
    \/ \E a \in DelayArgs : call_later("T1", 1, a)
    \/ \E a \in WhenArgs : call_at("T1", 1, a)
    \/ \E k \in 1..MaxTimers : timer_fire(k)
    \/ \E k \in 1..MaxTimers : timer_cancel(k)

SpecTimers == Init /\ [][NextTimers]_vars

\* The scheduling calls of a reactor in and out of debug mode: they are made
\* from the thread that owns its core, at top level or from a callback
\* fired inside run_forever, and from a thread that owns another core.
NextDebug ==
    \/ \E t \in Threads : new_event_loop(t)
    \/ \E t \in Threads, b \in BOOLEAN : set_debug(t, 1, b)
    \/ \E t \in Threads : call_soon(t, 1)
    \/ \E t \in Threads : create_future(t, 1)
    \/ \E t \in Threads : create_task(t, 1)
    \/ \E t \in Threads : call_later(t, 1, [type |-> "int", us |-> 0])
    \/ \E t \in Threads : call_at(t, 1, [type |-> "int", us |-> 0])
    \/ \E t \in Threads : run_forever(t, 1, FALSE)
    \/ \E t \in Threads : core_turn(t)
    \/ \E t \in Threads : stop(t, 1)
    \/ \E t \in Threads : core_run_returns(t)
    \/ \E t \in Threads : run_forever_returns(t)

SpecDebug == Init /\ [][NextDebug]_vars

\* The exception handler slot of the first reactor.
NextExh ==
    \/ get_exception_handler(1)
    \/ \E h \in HandlerArgs : set_exception_handler(1, h)
    \/ \E raises \in BOOLEAN : call_exception_handler(1, raises)

SpecExh == Init /\ [][NextExh]_vars

\* getaddrinfo and the resolutions it starts.
NextGai ==
    \/ \E kw \in Kwargs : getaddrinfo(1, "example", 80, kw)
    \/ \E k \in 1..MaxLookups, ans \in Answers : lookup_done(k, ans)

SpecGai == Init /\ [][NextGai]_vars

\* create_connection and the resolutions it starts.  Its task only asks
\* whether an answer is empty: one entry stands for every non-empty answer.
ConnAnswers == {ans \in Answers : Len(ans.addrs) <= 1}

NextConn ==
    \/ \E a \in ConnArgs : create_connection(1, a)
    \/ \E k \in 1..MaxConnects, ans \in ConnAnswers : lookup_done(k, ans)

SpecConn == Init /\ [][NextConn]_vars

\* The same connection with the reactor's scheduling: a transport task that
\* can make progress is polled.
SpecTcpLive ==
    /\ SpecTcp
    /\ WF_vars(\E acc \in 0..MaxWrites, werr \in BOOLEAN, fl \in 0..MaxWrites :
                  tcp_poll(1, acc, werr, fl))

\* ---------------------------------------------------------------- claims

\* s is t or extends it.
IsPrefix(s, t) == Len(s) <= Len(t) /\ SubSeq(t, 1, Len(s)) = s

\* C1: the callbacks accepted by call_soon fire at most once each and in
\* submission order: on every core the fired callbacks are a prefix of the
\* submitted ones, and while the core lives the fired callbacks followed by
\* the waiting ones are exactly the submitted ones (none lost, none twice).
C1_CallSoonFifo ==
    \A c \in Loops :
        /\ IsPrefix(fired[c], submitted[c])
        /\ Alive(c) => fired[c] \o ready[c] = submitted[c]

\* C1 witness: three callbacks were submitted and all fired, in order.
C1_Witness == fired[1] = <<1, 2, 3>>

\* C2: stop() with the run token present returns true, removes the token
\* and sends one stop signal; with the token absent it returns false and
\* changes nothing; no run ever receives a second stop signal.
C2_StopOnce ==
    /\ [](\A t \in Threads : th[t].sends <= 1)
    /\ [][\A t \in Threads, l \in Loops :
            ret'.op = "stop" /\ stop(t, l) =>
                IF lp[l].runner # NoRunner
                THEN /\ ret'.res = "true"
                     /\ lp'[l].runner = NoRunner
                     /\ th'[lp[l].runner].sends = th[lp[l].runner].sends + 1
                ELSE /\ ret'.res = "false"
                     /\ lp' = lp
                     /\ th' = th]_vars

\* C2 witness: stop() returned true and its signal reached a run that
\* still waits.
C2_Witness ==
    /\ ret = [op |-> "stop", res |-> "true"]
    /\ \E t \in Threads : th[t].pc = "run" /\ th[t].rx = "sent" /\ th[t].sends = 1

\* A stop signal reached the run of thread t, or an interrupt arrived at a
\* run that listens for it.
StopOrInterrupt(t) ==
    \/ th[t].rx = "sent"
    \/ th[t].sigint /\ th[t].sig

\* C3 as stated: a run_forever call on an open core returns normally only
\* after stop() or (stop_on_sigint) an interrupt, once either happened it
\* returns normally, and without stop_on_sigint an interrupt does not end
\* the run.
C3_Original ==
    /\ [](\A t \in Threads :
            th[t].pc = "woken" /\ th[t].kind = "forever" /\ ~th[t].sigint
                => th[t].status # "CtrlC")
    /\ [][\A t \in Threads :
            th[t].pc = "woken" /\ th[t].status # "NoEventLoop"
                  /\ run_forever_returns(t) =>
                /\ ret'.res = "ok" <=> StopOrInterrupt(t)
                /\ th'[t].pc = "idle"]_vars

\* C3 amended: as C3, except that a run whose token was cancelled by a
\* later run call on the same reactor before it saw the stop signal ends
\* with the runtime error, also when an interrupt had arrived.
C3_RunForeverReturns ==
    /\ [](\A t \in Threads :
            th[t].pc = "woken" /\ th[t].kind = "forever" /\ ~th[t].sigint
                => th[t].status # "CtrlC")
    /\ [][\A t \in Threads :
            th[t].pc = "woken" /\ th[t].status # "NoEventLoop"
                  /\ run_forever_returns(t) =>
                /\ ret'.res = "ok" => StopOrInterrupt(t)
                /\ StopOrInterrupt(t) /\ th[t].rx # "cancelled" => ret'.res = "ok"
                /\ th[t].rx = "cancelled" => ret'.res = "runtime_error"
                /\ th'[t].pc = "idle"]_vars

\* C3 witness: a run_forever without stop_on_sigint received an interrupt
\* and still blocks, its token in place.
C3_Witness ==
    \E t \in Threads :
        /\ th[t].pc = "run" /\ th[t].kind = "forever"
        /\ ~th[t].sigint /\ th[t].sig /\ th[t].rx = "open"
        /\ lp[th[t].loop].runner = t

\* C4: close() with the run token present fails and changes neither the
\* core slot nor the token nor any run; with the token absent it empties
\* the calling thread's core slot.
C4_CloseDropsCore ==
    [][\A t \in Threads, l \in Loops :
        ret'.op = "close" /\ close(t, l) =>
            IF lp[l].runner # NoRunner
            THEN /\ ret'.res = "running_error"
                 /\ core' = core /\ lp' = lp /\ th' = th
            ELSE core'[t] = NoCore]_vars

\* C5: call_soon on a reactor whose core was dropped fails with the "no
\* current event loop" error and schedules nothing.
C5_ClosedCoreRejects ==
    [][\A t \in Threads, l \in Loops :
        call_soon(t, l) /\ ~Alive(l) =>
            ret'.res = "no_loop" /\ ready' = ready]_vars

\* C6: a run method called on a thread whose core slot is empty installs
\* no run token, never blocks in core.run and ends with the "no current
\* event loop" error, the token absent if it was absent before.
C6_NoLoopRun ==
    /\ [](\A t \in Threads :
            /\ th[t].pc = "run" => core[t] # NoCore
            /\ th[t].status = "NoEventLoop" =>
                  th[t].pc = "woken" /\ lp[th[t].loop].runner # t)
    /\ [][\A t \in Threads :
            /\ AtTopLevel(t) /\ core[t] = NoCore =>
                  \A l \in Loops :
                     /\ (\E s \in BOOLEAN : run_forever(t, l, s))
                           => lp' = lp /\ th'[t].pc = "woken"
                                /\ th'[t].status = "NoEventLoop"
                     /\ (\E k \in {"pending", "ok", "err"} :
                             run_until_complete(t, l, k))
                           => ret'.res = "no_loop" /\ lp' = lp /\ th' = th
            /\ th[t].status = "NoEventLoop" /\ run_forever_returns(t)
                  => ret'.res = "no_loop"
                       /\ lp'[th[t].loop].runner = NoRunner]_vars

\* C6 witness: run_forever on a thread without a core ended with the "no
\* current event loop" error after the core was closed.
C6_Witness ==
    /\ ret = [op |-> "run_forever", res |-> "no_loop"]
    /\ \A t \in Threads : core[t] = NoCore /\ th[t].pc = "idle"
    /\ \A l \in Loops : lp[l].runner = NoRunner

\* C7: is_closed() returns true exactly when the calling thread's core
\* slot is empty.
C7_IsClosedReportsAbsence ==
    [][\A t \in Threads, l \in Loops :
        is_closed(t, l) =>
            ret'.res = (IF core[t] = NoCore THEN "true" ELSE "false")]_vars

\* Some thread executes a run method of reactor l.
InRunCall(l) == \E t \in Threads : th[t].pc \in {"run", "woken"} /\ th[t].loop = l

\* C8: the run token of a reactor is absent while no run method of it
\* executes; a run method that finds a core installs it; it stays until
\* stop() or the cleanup of a run method takes it; it is absent when a run
\* method returns, whatever the exit path; is_running() reports it.
C8_RunToken ==
    /\ [](\A l \in Loops : ~InRunCall(l) => lp[l].runner = NoRunner)
    /\ [][/\ \A t \in Threads :
              /\ AtTopLevel(t) /\ core[t] # NoCore =>
                    \A l \in Loops :
                       \/ \E s \in BOOLEAN : run_forever(t, l, s)
                       \/ \E k \in {"pending", "ok", "err"} :
                             run_until_complete(t, l, k)
                       => lp'[l].runner = t /\ th'[t].pc = "run"
              /\ th[t].pc = "woken"
                    /\ (run_forever_returns(t) \/ run_until_complete_returns(t))
                    => lp'[th[t].loop].runner = NoRunner
          /\ \A l \in Loops :
              lp[l].runner # NoRunner /\ lp'[l].runner = NoRunner
                  => ret'.op \in {"stop", "run_forever", "run_until_complete"}
          /\ ret'.op = "is_running" =>
                \A t \in Threads, l \in Loops :
                   is_running(t, l)
                      => (ret'.res = "true" <=> lp[l].runner # NoRunner)]_vars

\* C8 witness: a run_forever whose token was cancelled has returned on the
\* internal-error path and no token is left.
C8_Witness ==
    /\ ret = [op |-> "run_forever", res |-> "runtime_error"]
    /\ \A l \in Loops : lp[l].runner = NoRunner

\* What run_until_complete returns for a task that is done.
ResultOfDone(t, res) ==
    /\ th[t].task = "ok" => res = "result"
    /\ th[t].task = "err" => res = "task_error"

\* C9 as stated: run_until_complete returns only after a stop signal, the
\* completion of the task or an interrupt, leaves the run token absent and
\* returns the task's result or raises its error.
C9_Original ==
    [][\A t \in Threads :
        th[t].pc = "woken" /\ run_until_complete_returns(t) =>
            /\ th[t].rx = "sent" \/ th[t].done \/ th[t].sig
            /\ lp'[th[t].loop].runner = NoRunner
            /\ ResultOfDone(t, ret'.res)]_vars

\* C9 amended: as C9, with a fourth way out of the wait: the run token is
\* cancelled by a later run call on the same reactor.
C9_RunUntilComplete ==
    [][\A t \in Threads :
        th[t].pc = "woken" /\ run_until_complete_returns(t) =>
            /\ th[t].rx \in {"sent", "cancelled"} \/ th[t].done \/ th[t].sig
            /\ lp'[th[t].loop].runner = NoRunner
            /\ ResultOfDone(t, ret'.res)]_vars

\* C9 witness: run_until_complete returned the result of a task that
\* completed during the run.
C9_Witness ==
    /\ ret = [op |-> "run_until_complete", res |-> "result"]
    /\ \A l \in Loops : lp[l].runner = NoRunner

\* C10: every request head parsed on the connection has had its handler
\* invoked or waits in the pending queue, the invocations started in
\* arrival order, and at most one of them runs at a time.
C10_SequentialHandlers ==
    /\ http.started \o http.reqs = [i \in 1..http.parsed |-> i]
    /\ Cardinality(http.running) <= 1

\* C11: a newly parsed request starts a handler if inflight is below the
\* ceiling, incrementing inflight, and is appended to the pending queue
\* otherwise; never more than CONCURENCY_LEVEL handlers run at once.
C11_DispatchUnderCeiling ==
    [][\A ok \in BOOLEAN :
        data_received_message(ok) =>
            /\ IF http.inflight < CONCURENCY_LEVEL
               THEN /\ http'.inflight = http.inflight + 1
                    /\ http'.started = Append(http.started, http.parsed + 1)
               ELSE http'.reqs = Append(http.reqs, http.parsed + 1)
            /\ Cardinality(http'.running) <= CONCURENCY_LEVEL]_vars

LostFor(kind) ==
    CASE kind = "TimedOut" -> "socket.timeout"
      [] kind = "BrokenPipe" -> "BrokenPipeError"
      [] kind = "ConnectionRefused" -> "ConnectionRefusedError"
      [] kind = "ConnectionAborted" -> "ConnectionAbortedError"
      [] kind = "ConnectionReset" -> "ConnectionResetError"
      [] kind = "Interrupted" -> "InterruptedError"
      [] kind = "Other" -> "OSError"

\* C14: on the loss of an HTTP connection the pending queue is emptied and
\* the consumer's connection_lost is called once: with None for a clean
\* close, with socket.timeout for a timed-out I/O error, with the
\* classified OS error otherwise; it is never called a second time.
C14_LostOnce ==
    /\ [](Len(http.lost) <= 1 /\ (http.lost # <<>> => http.reqs = <<>>))
    /\ [][/\ http_connection_lost =>
                http'.reqs = <<>> /\ http'.lost = <<"None">>
          /\ \A kind \in ErrorKinds :
                http_connection_error(kind) =>
                   http'.reqs = <<>> /\ http'.lost = <<LostFor(kind)>>]_vars

\* C14 witness: a connection that had received requests ended with a
\* broken pipe and its consumer was told so.
C14_Witness ==
    /\ http.lost = <<"BrokenPipeError">>
    /\ http.parsed > 0
    /\ ~http.open

\* The buffers of the first n write() calls, in the order of the calls.
Submitted(n) == [i \in 1..n |-> i]

IsBytes(m) == m # CloseMsg

\* The pending buffer as a sequence: empty or of length one.
Pending(s) == IF s.buf = NoBuf THEN <<>> ELSE <<s.buf>>

\* C15: the sink receives the written buffers in the order of the write()
\* calls, each once and as written; while the task runs, the buffers given to
\* the sink, the one held after a refusal and those still queued are together
\* exactly the buffers written, in order.
C15_WritesInOrder ==
    \A c \in Conns :
        /\ IsPrefix(tcp[c].sink, Submitted(tcp[c].nw))
        /\ tcp[c].running =>
              tcp[c].sink \o Pending(tcp[c]) \o SelectSeq(tcp[c].intake, IsBytes)
                 = Submitted(tcp[c].nw)

\* A refused buffer is held while an earlier one is in the sink and a later
\* one is queued.
C15_Witness ==
    /\ tcp[1].running
    /\ tcp[1].sink = <<1>> /\ tcp[1].buf = 2 /\ tcp[1].nw = MaxWrites

\* The reactor polls the task of connection c.
PollStep(c) ==
    \E acc \in 0..MaxWrites, werr \in BOOLEAN, fl \in 0..MaxWrites :
        tcp_poll(c, acc, werr, fl)

Last(q) == q[Len(q)]

\* C16: there is one slot for a refused buffer.  A poll that returns with a
\* buffer in the slot took nothing from the queue after it: the held buffer is the
\* one that follows the sink's content.  A poll that finds a buffer in the
\* slot either is refused again and takes nothing from the queue, or gives
\* the sink that buffer before anything else, or ends on an error; it never
\* serves a queued command first.
C16_OnePending ==
    [][\A c \in Conns :
          PollStep(c) =>
             /\ tcp'[c].running /\ tcp'[c].buf # NoBuf =>
                   /\ tcp'[c].buf = Len(tcp'[c].sink) + 1
                   /\ Len(tcp[c].intake) - Len(tcp'[c].intake)
                         = Len(tcp'[c].sink) - Len(tcp[c].sink) + 1 - Len(Pending(tcp[c]))
             /\ tcp[c].buf # NoBuf =>
                   \/ /\ tcp'[c].buf = tcp[c].buf
                      /\ tcp'[c].intake = tcp[c].intake
                      /\ tcp'[c].sink = tcp[c].sink
                   \/ IsPrefix(Append(tcp[c].sink, tcp[c].buf), tcp'[c].sink)
                   \/ ~tcp'[c].running /\ Last(tcp'[c].lost) # tcp_connection_lost]_vars

\* A buffer is held while a later buffer and a Close wait in the queue.
C16_Witness ==
    tcp[1].buf = 1 /\ tcp[1].intake = <<2, CloseMsg>>

\* close() was called on connection c: the first wclose buffers were written
\* before it.
CloseSubmitted(c) == tcp[c].wclose >= 0

\* What holds of close() whenever the task ends: no buffer written after
\* close() reaches the sink, and the consumer is notified at most once.
CloseDropsLater ==
    \A c \in Conns :
        /\ CloseSubmitted(c) => Len(tcp[c].sink) <= tcp[c].wclose
        /\ Len(tcp[c].lost) <= 1
        /\ ~tcp[c].running => Len(tcp[c].lost) = 1

\* C17 as stated: once close() is submitted, the next poll ends the task (on a
\* socket without error), whatever the sink accepts; writes after close() are
\* never sent; connection_lost(None) is delivered once.
C17_Original ==
    /\ []CloseDropsLater
    /\ [][\A c \in Conns :
             CloseSubmitted(c) /\ tcp[c].sockerr = "none" /\ PollStep(c) =>
                ~tcp'[c].running /\ tcp'[c].lost = <<tcp_connection_lost>>]_vars

\* C17: Close is served in its turn.  On a socket without error, a poll after
\* close() ends the task exactly when the sink has accepted every buffer
\* written before close(); a buffer the sink refuses keeps the task running.
\* The task then ends without a flush, connection_lost(None) is delivered
\* once, and no buffer written after close() ever reaches the sink.
C17_CloseInTurn ==
    /\ []CloseDropsLater
    /\ [][\A c \in Conns :
             CloseSubmitted(c) /\ tcp[c].sockerr = "none" /\ PollStep(c) =>
                /\ ~tcp'[c].running <=> Len(tcp'[c].sink) = tcp[c].wclose
                /\ ~tcp'[c].running =>
                      /\ tcp'[c].lost = <<tcp_connection_lost>>
                      /\ tcp'[c].wire = tcp[c].wire]_vars

\* The task was ended by close(); the buffer written before close() reached
\* the sink and the one written after it did not.
C17_Witness ==
    /\ ~tcp[1].running /\ tcp[1].lost = <<tcp_connection_lost>>
    /\ tcp[1].wclose = 1 /\ tcp[1].nw = 2 /\ tcp[1].sink = <<1>>

\* C18: when the task was ended by close(), every buffer written before
\* close() has been written to the socket, so the peer receives all of them
\* before end-of-stream.
C18_WriteThenClose ==
    \A c \in Conns :
        ~tcp[c].running /\ tcp[c].lost = <<tcp_connection_lost>> =>
            tcp[c].wire = tcp[c].wclose

\* Close waits in the intake queue of s.
CloseQueued(s) == \E i \in 1..Len(s.intake) : s.intake[i] = CloseMsg

\* C19: before end-of-stream a poll of a sound socket gives data_received
\* every chunk the socket holds, in arrival order.  After end-of-stream a poll
\* reads nothing and calls data_received no more, whatever the socket holds or
\* reports; end-of-stream does not end the task: it runs on unless Close is
\* reached or a write fails, and a poll still hands the queued buffers to the
\* sink, as many as the sink accepts, and flushes them.
C19_ReadEof ==
    [][\A c \in Conns : \A acc \in 0..MaxWrites, fl \in 0..MaxWrites, werr \in BOOLEAN :
          tcp_poll(c, acc, werr, fl) =>
             /\ ~tcp[c].incoming_eof /\ tcp[c].sockerr = "none" =>
                   /\ tcp'[c].received = tcp[c].received \o tcp[c].inq
                   /\ tcp'[c].received = Submitted(tcp[c].nc)
                   /\ tcp'[c].inq = <<>>
                   /\ tcp'[c].incoming_eof = tcp[c].peer_eof
             /\ tcp[c].incoming_eof =>
                   /\ tcp'[c].incoming_eof
                   /\ tcp'[c].received = tcp[c].received
                   /\ tcp'[c].inq = tcp[c].inq
                   /\ ~tcp'[c].running =>
                         \/ tcp'[c].lost = <<tcp_connection_lost>>
                         \/ tcp[c].buf # NoBuf \/ tcp[c].intake # <<>> \/ ~tcp[c].flushed
             /\ tcp'[c].incoming_eof /\ tcp[c].sockerr = "none" /\ ~CloseQueued(tcp[c]) =>
                   /\ tcp'[c].running
                   /\ Len(tcp'[c].sink) = Min(tcp[c].nw, Len(tcp[c].sink) + acc)
                   /\ tcp'[c].wire = Min(Len(tcp'[c].sink), tcp[c].wire + fl)]_vars

\* After end-of-stream the task still runs, and everything the peer sent was
\* received and everything written was flushed.
C19_Witness ==
    /\ tcp[1].incoming_eof /\ tcp[1].running
    /\ Len(tcp[1].received) = MaxChunks /\ tcp[1].wire = MaxWrites

\* The task of connection c has ended and its consumer was told once:
\* None only after close(), otherwise the exception for the socket's error
\* (OSError when start_send failed).
LostOnce(c) ==
    /\ Len(tcp[c].lost) = 1
    /\ tcp[c].lost[1] = tcp_connection_lost => CloseSubmitted(c)
    /\ tcp[c].lost[1] # tcp_connection_lost =>
          /\ tcp[c].sockerr # "none"
          /\ tcp[c].lost[1] \in {tcp_connection_error(tcp[c].sockerr),
                                 tcp_connection_error("Other")}

\* C20: a running task has told its consumer nothing and an ended one told it
\* once, None after close() or the error after an I/O error; after that the
\* consumer gets no data_received and no second notification; and the step in
\* which a task ends on an I/O error changes nothing of the reactor or of the
\* other connections.
C20_LostOncePerTask ==
    /\ [](\A c \in Conns : IF tcp[c].running THEN tcp[c].lost = <<>> ELSE LostOnce(c))
    /\ [][\A c \in Conns :
             /\ ~tcp[c].running =>
                   /\ tcp'[c].received = tcp[c].received
                   /\ tcp'[c].lost = tcp[c].lost
                   /\ ~tcp'[c].running
             /\ tcp[c].running /\ ~tcp'[c].running
                   /\ tcp'[c].lost # <<tcp_connection_lost>> =>
                   /\ \A d \in Conns \ {c} : tcp'[d] = tcp[d]
                   /\ UNCHANGED <<loopvars, http, srv, clk, exh, dns>>]_vars

\* Connection 1 ended on a reset while connection 2 runs on, having received
\* and written data.
C20_Witness ==
    /\ ~tcp[1].running /\ tcp[1].lost = <<tcp_connection_error("ConnectionReset")>>
    /\ tcp[1].received # <<>>
    /\ tcp[2].running /\ tcp[2].received # <<>> /\ tcp[2].wire > 0

\* C21: a future of drain() has its result only when every buffer written
\* before is on the socket.
C21_DrainAfterFlush ==
    \A c \in Conns : tcp[c].dres \in {-1, 0}

\* The accept loop of listener i was spawned.
Spawned(i) == srv.lst[i].state # "none"

\* C22: no stop token is ever signalled twice; a close() that finds the
\* handles sends one signal to the token of every spawned accept loop and
\* leaves no handle behind; a close() that finds none changes nothing but
\* succeeds.
C22_CloseSignalsOnce ==
    /\ [](\A i \in Addrs : srv.lst[i].nsig <= 1)
    /\ [][srv'.ncl # srv.ncl /\ server_close =>
             /\ ~srv'.some /\ srv'.set = {}
             /\ srv.some =>
                   \A i \in Addrs :
                      IF Spawned(i)
                      THEN srv.lst[i].nsig = 0 /\ srv'.lst[i].nsig = 1
                      ELSE srv'.lst[i] = srv.lst[i]
             /\ ~srv.some => srv'.lst = srv.lst]_vars

\* close() was called twice on a server with an accept loop per address, and
\* every token got its one signal.
C22_Witness ==
    /\ srv.ncl = 2
    /\ \A i \in Addrs : Spawned(i) /\ srv.lst[i].nsig = 1

\* The first k-1 things listener i will yield are plain connections.
ConnsBefore(i, k) == \A j \in 1..(k - 1) : srv.lst[i].queue[j] = "conn"

\* C23: a poll of an accept loop whose stop signal was sent, or whose sender
\* was dropped, ends the loop cleanly and takes nothing from the listener,
\* whatever the listener holds.  When close() is called while a connection is
\* being accepted, the re-poll after that connection ends the loop and the
\* connections behind it stay unaccepted.  The end of the listener's stream
\* ends the loop cleanly.
C23_StopBeforeAccept ==
    [][\A i \in Addrs :
          srv.lst[i].state = "serving" /\ server_poll(i) =>
             /\ srv.lst[i].token \in {"sent", "dropped"} =>
                   /\ srv'.lst[i].state = "stopped"
                   /\ srv'.lst[i].queue = srv.lst[i].queue
                   /\ srv'.lst[i].accepted = srv.lst[i].accepted
                   /\ srv'.lst[i].logged = srv.lst[i].logged
             /\ srv.lst[i].token = "armed" =>
                   \A k \in 1..Len(srv.lst[i].queue) :
                      ConnsBefore(i, k) =>
                         /\ srv.lst[i].queue[k] = "closer" =>
                               /\ srv'.lst[i].state = "stopped"
                               /\ srv'.lst[i].accepted = srv.lst[i].accepted + k
                               /\ srv'.lst[i].queue
                                     = SubSeq(srv.lst[i].queue, k + 1, Len(srv.lst[i].queue))
                               /\ srv'.lst[i].logged = srv.lst[i].logged
                         /\ srv.lst[i].queue[k] = "eos" =>
                               /\ srv'.lst[i].state = "exhausted"
                               /\ srv'.lst[i].accepted = srv.lst[i].accepted + k - 1
                               /\ srv'.lst[i].logged = srv.lst[i].logged]_vars

\* An accept loop ended on its stop signal with a connection left on its
\* listener, after the connection during which close() was called.
C23_Witness ==
    /\ srv.lst[1].state = "stopped" /\ srv.lst[1].nsig = 1
    /\ srv.lst[1].accepted = 1 /\ srv.lst[1].queue = <<"conn">>

\* Address i is of a family create_server binds.
Supported(fam, i) == fam[i] \in {"Inet", "Inet6"}

\* What holds of every create_server call: it fails exactly when the lookup
\* fails or a socket of a supported family fails to bind, to listen or to
\* register; then nothing is spawned, no listener is open and there are no
\* handles.  When it succeeds the spawned loops, the open listeners and the
\* handles are the same addresses, every loop with its own armed token.
CreateServerOutcome(lookup, fam, out) ==
    /\ srv'.created = "OSError" <=>
          \/ ~lookup
          \/ \E i \in Addrs : Supported(fam, i) /\ out[i] \notin {"ok", "builder_err"}
    /\ srv'.created = "OSError" =>
          /\ ~srv'.some /\ srv'.set = {}
          /\ \A i \in Addrs : srv'.lst[i] = NoAcceptLoop
    /\ srv'.created = "ok" =>
          /\ srv'.some
          /\ \A i \in Addrs :
                /\ i \in srv'.set <=> srv'.lst[i].state = "serving"
                /\ i \in srv'.set <=> srv'.lst[i].open
                /\ i \in srv'.set <=> srv'.lst[i].token = "armed"

\* C24 as stated: besides the above, a successful call has bound every
\* address of a supported family.
C24_Original ==
    [][srv.created = "none" =>
          \A lookup \in BOOLEAN, fam \in [Addrs -> Families], out \in [Addrs -> SocketOutcomes] :
             create_server(lookup, fam, out) =>
                /\ CreateServerOutcome(lookup, fam, out)
                /\ srv'.created = "ok" =>
                      \A i \in Addrs : Supported(fam, i) => srv'.lst[i].open]_vars

\* C24: accept loops are spawned only by a call that bound every address it
\* did not skip, and it skips the addresses of other families and those for
\* which no socket could be made; a failing bind, listen or registration
\* fails the call with nothing spawned and nothing open; on success loops,
\* tokens and listeners are the same in number, one token per loop.
C24_BindAllThenServe ==
    [][srv.created = "none" =>
          \A lookup \in BOOLEAN, fam \in [Addrs -> Families], out \in [Addrs -> SocketOutcomes] :
             create_server(lookup, fam, out) =>
                /\ CreateServerOutcome(lookup, fam, out)
                /\ srv'.created = "ok" =>
                      \A i \in Addrs :
                         Supported(fam, i) /\ out[i] = "ok" <=> srv'.lst[i].open]_vars

\* A server was created with an accept loop for the second address only.
C24_Witness ==
    /\ srv.created = "ok" /\ srv.set = {2}
    /\ srv.lst[2].state = "serving" /\ srv.lst[1].state = "none"

\* C25: when the listener of an accept loop yields an I/O error, or a
\* connection whose transport cannot be built, the poll that meets it ends
\* that loop, after accepting the connections before it, and logs the error
\* once; the other accept loops, the server's handles, the reactor and its run
\* calls, and the transports already built are as they were.
C25_AcceptErrorIsLocal ==
    [][\A i \in Addrs :
          srv.lst[i].state = "serving" /\ srv.lst[i].token = "armed" /\ server_poll(i) =>
             \A k \in 1..Len(srv.lst[i].queue) :
                ConnsBefore(i, k) /\ srv.lst[i].queue[k] \in {"ioerr", "badfactory"} =>
                   /\ srv'.lst[i].state = "failed"
                   /\ ~srv'.lst[i].open
                   /\ srv'.lst[i].logged = srv.lst[i].logged + 1
                   /\ srv'.lst[i].accepted = srv.lst[i].accepted + k - 1
                   /\ \A j \in Addrs \ {i} : srv'.lst[j] = srv.lst[j]
                   /\ srv'.some = srv.some /\ srv'.set = srv.set
                   /\ UNCHANGED <<loopvars, http, tcp>>]_vars

\* The accept loop of the first listener failed after building a transport,
\* and the loop of the second one still serves.
C25_Witness ==
    /\ srv.lst[1].state = "failed" /\ srv.lst[1].logged = 1
    /\ srv.lst[1].accepted = 1
    /\ srv.lst[2].state = "serving"

\* C28: a later time() call returns no less than an earlier one, and so does
\* millis(); and 1000 * time() is less than 1 away from millis() at the same
\* instant (time() is held in millionths, so both sides are multiplied by
\* 1000).
C28_ClockMonotone ==
    [][/\ clk'.tres # clk.tres =>
             /\ clk'.tres >= clk.tres
             /\ clk'.tres - 1000 * Millis(Elapsed) < 1000
             /\ 1000 * Millis(Elapsed) - clk'.tres < 1000
       /\ clk'.mres >= clk.mres]_vars

\* C26: a timer fires at most once and a cancelled timer has not fired and
\* never will: once a timer is cancelled or has fired, nothing changes it any
\* more, neither a cancel() nor the passing of its time.
C26_CancelledNeverFires ==
    /\ [](\A k \in 1..Len(clk.timers) :
             /\ clk.timers[k].nfire <= 1
             /\ clk.timers[k].st = "cancelled" => clk.timers[k].nfire = 0
             /\ clk.timers[k].st = "fired" <=> clk.timers[k].nfire = 1)
    /\ [][\A k \in 1..Len(clk.timers) :
             clk.timers[k].st \in {"fired", "cancelled"} =>
                clk'.timers[k] = clk.timers[k]]_vars

\* The first timer was cancelled and its time has passed; the second one
\* fired, and cancel() was the last call.
C26_Witness ==
    /\ Len(clk.timers) = 2
    /\ clk.timers[1].st = "cancelled" /\ clk.timers[1].due < NowUs
    /\ clk.timers[2].st = "fired"
    /\ ret.op = "cancel"

\* C27: call_later with a delay that is zero or negative, and call_at with a
\* time that is not after the reactor's present time, succeed, return a handle
\* and schedule one timer that is due at once; such a timer fires at most
\* once.
C27_PastFiresNow ==
    /\ [](\A k \in 1..Len(clk.timers) : clk.timers[k].nfire <= 1)
    /\ [][/\ \A a \in DelayArgs :
                ret'.op = "call_later" /\ a.type # "str" /\ a.us <= 0
                   /\ call_later("T1", 1, a) =>
                   /\ ret'.res = "handle"
                   /\ Len(clk'.timers) = Len(clk.timers) + 1
                   /\ Last(clk'.timers).due = NowUs
          /\ \A a \in WhenArgs :
                ret'.op = "call_at" /\ a.type # "str" /\ a.us <= NowUs
                   /\ call_at("T1", 1, a) =>
                   /\ ret'.res = "handle"
                   /\ Len(clk'.timers) = Len(clk.timers) + 1
                   /\ Last(clk'.timers).due = NowUs]_vars

\* C29: with debug mode on, create_future, create_task, call_soon,
\* call_later and call_at made from a thread whose core is absent or is
\* another reactor's fail with the thread-safety error and schedule nothing,
\* made from the owning thread they succeed; with debug mode off no thread
\* check is made.
C29_DebugThreadCheck ==
    [][\A t \in Threads :
         LET zero == [type |-> "int", us |-> 0]
             made == \/ call_soon(t, 1)
                     \/ create_future(t, 1)
                     \/ create_task(t, 1)
                     \/ call_later(t, 1, zero)
                     \/ call_at(t, 1, zero)
         IN  (/\ ret'.op \in {"call_soon", "create_future", "create_task",
                              "call_later", "call_at"}
              /\ made)
             => IF lp[1].debug
                THEN IF core[t] = 1
                     THEN ret'.res \in {"handle", "future", "task"}
                     ELSE /\ ret'.res = "thread_error"
                          /\ UNCHANGED <<ready, submitted, clk>>
                ELSE ret'.res # "thread_error"]_vars

\* C30: set_exception_handler(None) succeeds and restores the default
\* handler (the slot reads None afterwards); a callable becomes the single
\* stored handler; anything else is rejected with a TypeError and the slot
\* keeps what it held.
C30_SetHandler ==
    [][\A h \in HandlerArgs :
         (ret'.op = "set_exception_handler" /\ set_exception_handler(1, h))
         => IF h = "None" \/ h \in Callables
            THEN /\ ret'.res = "ok"
                 /\ exh'[1].handler = h
            ELSE /\ ret'.res = "type_error"
                 /\ UNCHANGED exh]_vars

\* C31: the future getaddrinfo returns is resolved once, when the lookup
\* completes: a successful answer gives the list of its entries in the
\* resolver's order (the empty list for an empty answer), a resolver error
\* gives that error, and a lost resolver channel gives a runtime error.
\* Until then the future is pending and afterwards it does not change.
C31_ResolvedOnce ==
    /\ [](\A k \in 1..Len(dns) :
            dns[k].kind = "getaddrinfo" =>
                /\ dns[k].nset <= 1
                /\ (dns[k].fut = "pending") = (dns[k].answer = NoAnswer)
                /\ dns[k].answer.kind = "ok" =>
                     /\ dns[k].fut = "result"
                     /\ Len(dns[k].value) = Len(dns[k].answer.addrs)
                     /\ \A i \in 1..Len(dns[k].value) :
                          dns[k].value[i] =
                              AddrItem(dns[k].answer.addrs[i], dns[k].port)
                /\ dns[k].answer.kind = "err" => dns[k].fut = "error"
                /\ dns[k].answer.kind = "canceled" =>
                     dns[k].fut = "runtime_error")
    /\ [][\A k \in 1..Len(dns) :
            (dns[k].kind = "getaddrinfo" /\ dns[k].fut # "pending")
            => dns'[k] = dns[k]]_vars

\* A getaddrinfo future resolved with two entries of different families,
\* another with the empty list.
C31_Witness ==
    /\ \E k \in 1..Len(dns) :
         /\ dns[k].kind = "getaddrinfo"
         /\ dns[k].fut = "result"
         /\ Len(dns[k].value) = 2
         /\ dns[k].value[1] # dns[k].value[2]
    /\ \E k \in 1..Len(dns) :
         /\ dns[k].kind = "getaddrinfo"
         /\ dns[k].fut = "result"
         /\ dns[k].value = <<>>

\* The calls create_connection must reject: server_hostname without ssl,
\* host or port together with sock, and none of host, port and sock.
Rejected(a) ==
    \/ a.server_hostname # NoArg /\ ~a.ssl
    \/ (a.host # NoArg \/ a.hasport) /\ a.sock
    \/ a.host = NoArg /\ ~a.hasport /\ ~a.sock

\* A resolution failure reaches the caller of create_connection through the
\* future only: the call that started the resolution returned the future.
FailuresInFuture ==
    \A k \in 1..Len(dns) :
        dns[k].kind = "connect" =>
            /\ dns[k].answer.kind = "err" => dns[k].fut = "error"
            /\ (dns[k].answer.kind = "ok" /\ dns[k].answer.addrs = <<>>)
               => dns[k].fut = "os_error"

\* C32 as stated: each rejected call returns a validation error at once, with
\* no future created and no resolution started; a resolver error and an
\* empty address list become the error of the returned future.
C32_Original ==
    /\ []FailuresInFuture
    /\ [][ret'.op = "create_connection" =>
            \A a \in ConnArgs :
                ~(/\ Rejected(a)
                  /\ ~(ret'.res = "value_error" /\ dns' = dns)
                  /\ create_connection(1, a))]_vars

\* The error a rejected call returns: with ssl given, and a server hostname
\* given or a host to default it to, a TLS connector that cannot be built
\* gives an OS error before host, port and sock are looked at.
RejectedWith(a) ==
    IF a.ssl /\ ~a.tls_ok /\ ~(a.server_hostname = NoArg /\ a.host = NoArg)
    THEN "os_error"
    ELSE "value_error"

\* C32, amended: each rejected call returns an error at once with no future
\* created and no resolution started; the error is a validation error,
\* or an OS error when ssl is given and no TLS connector can be built.  A
\* resolver error and an empty address list become the error of the
\* returned future.  (No step is a rejected call that ends otherwise.)
C32_RejectsAtOnce ==
    /\ []FailuresInFuture
    /\ [][ret'.op = "create_connection" =>
            \A a \in ConnArgs :
                ~(/\ Rejected(a)
                  /\ ~(ret'.res = RejectedWith(a) /\ dns' = dns)
                  /\ create_connection(1, a))]_vars

\* A call was rejected with a validation error after a resolution had ended
\* in an empty list and left the error in its future.
C32_Witness ==
    /\ ret = [op |-> "create_connection", res |-> "value_error"]
    /\ \E k \in 1..Len(dns) :
         dns[k].kind = "connect" /\ dns[k].fut = "os_error"

\* C33: with ssl given and server_hostname left out, create_connection
\* fails when host is missing or is the empty string (it returns an error,
\* no future, and starts no resolution), and otherwise uses host as the
\* server hostname of the connection it starts.
C33_HostnameFromHost ==
    [][ret'.op = "create_connection" =>
        \A a \in ConnArgs :
            ~(/\ a.ssl
              /\ a.server_hostname = NoArg
              /\ ~(IF a.host \in {NoArg, ""}
                   THEN ret'.res # "future" /\ dns' = dns
                   ELSE ret'.res = "future" =>
                            dns'[Len(dns')].server_hostname = a.host)
              /\ create_connection(1, a))]_vars

\* The exception the consumer is to see for each kind of I/O error.
ReportedAs(kind) ==
    CASE kind = "TimedOut" -> "socket.timeout"
      [] kind = "BrokenPipe" -> "BrokenPipeError"
      [] kind = "ConnectionReset" -> "ConnectionResetError"
      [] kind = "ConnectionAborted" -> "ConnectionAbortedError"
      [] kind = "ConnectionRefused" -> "ConnectionRefusedError"
      [] kind = "Interrupted" -> "InterruptedError"
      [] OTHER -> "OSError"

\* C34: when the socket's I/O error ends the transport task, connection_lost
\* is called with the exception of that error's kind, whether the error
\* came up while reading, in start_send or in the flush.
C34_ErrorKindReported ==
    [][\A c \in Conns :
         (/\ tcp[c].running
          /\ ~tcp'[c].running
          /\ tcp[c].sockerr # "none"
          /\ Len(tcp'[c].lost) = Len(tcp[c].lost) + 1
          /\ tcp'[c].lost[Len(tcp'[c].lost)] # tcp_connection_lost)
         => tcp'[c].lost[Len(tcp'[c].lost)] = ReportedAs(tcp[c].sockerr)]_vars

\* C35: a transport that has read end-of-stream and has nothing left to
\* write (no command queued, no buffer held, everything in the sink on the
\* socket) is eventually destroyed: its task ends, with connection_lost
\* delivered, without a close() from the consumer.
C35_EofThenDrainEnds ==
    (/\ tcp[1].running
     /\ tcp[1].incoming_eof
     /\ tcp[1].intake = <<>>
     /\ tcp[1].buf = NoBuf
     /\ tcp[1].flushed
     /\ tcp[1].wire = Len(tcp[1].sink))
    ~> (~tcp[1].running /\ tcp[1].lost # <<>>)

\* C36: every buffer the sink accepted reaches the socket once the socket
\* takes data, unless the socket fails: a poll that hands buffers to the
\* sink goes on to flush it, and the flushed flag is set only when nothing
\* accepted is still unwritten.
C36_AcceptedIsFlushed ==
    /\ [](tcp[1].running /\ tcp[1].flushed =>
              tcp[1].wire = Len(tcp[1].sink))
    /\ \A i \in 1..MaxWrites :
          (Len(tcp[1].sink) >= i)
          ~> (tcp[1].wire >= i \/ tcp[1].sockerr # "none")

\* C37: the request getaddrinfo hands to the resolver carries the caller's
\* host, port, family, socket type and flags unchanged, each keyword being 0
\* when left out; the socket type is the one given as socket type, whatever
\* the family.
C37_RequestAsGiven ==
    [][ret'.op = "getaddrinfo" =>
        \A kw \in Kwargs :
            getaddrinfo(1, "example", 80, kw) =>
                LET req == dns'[Len(dns')] IN
                /\ req.host = "example"
                /\ req.port = 80
                /\ req.family = KwGet(kw, "family")
                /\ req.flags = KwGet(kw, "flags")
                /\ req.socktype = KwGet(kw, "socktype")]_vars

\* C38: close() on a reactor drops only the core that reactor owns: when the
\* calling thread's slot holds the core of another reactor (or no core),
\* close() leaves every slot as it is.
C38_CloseOwnCoreOnly ==
    [][ret'.op = "close" =>
        \A t \in Threads : \A l \in 1..nloops :
            (core[t] # l /\ close(t, l)) => core' = core]_vars

\* A thread that executes a run method has a core in its slot.
CoreKeptUnderRun == \A t \in Threads : th[t].pc = "run" => core[t] # NoCore

\* C39: a thread that executes a run method keeps its core all along; in
\* particular close() called from a callback of that run after stop() took
\* the run token fails with an error and leaves the core in place.
C39_NoCloseUnderRun ==
    /\ []CoreKeptUnderRun
    /\ [][ret'.op = "close" =>
          \A t \in Threads : \A l \in 1..nloops :
             (/\ th[t].pc = "run"
              /\ th[t].loop = l
              /\ lp[l].runner = NoRunner
              /\ close(t, l))
             => (ret'.res = "running_error" /\ core' = core)]_vars

\* stop() on a reactor that holds no run token returns false and changes
\* neither a token nor any run.
StopIdleIsNoop ==
    [][ret'.op = "stop" =>
        \A t \in Threads : \A l \in 1..nloops :
            (lp[l].runner = NoRunner /\ stop(t, l))
            => (ret'.res = "false" /\ lp' = lp /\ th' = th)]_vars

\* A run_forever that enters core.run has installed its own token, with
\* nothing sent on it and no interrupt seen.
FreshToken ==
    [][\A t \in Threads :
         (th[t].pc = "idle" /\ th'[t].pc = "run" /\ th'[t].kind = "forever")
         => /\ lp'[th'[t].loop].runner = t
            /\ th'[t].rx = "open"
            /\ th'[t].sends = 0
            /\ ~th'[t].sig]_vars

\* C40 as stated: a stop() on a reactor that is not running is not
\* remembered; the next run_forever installs a fresh token and its core.run
\* returns only once a stop() reached that token or an interrupt arrived.
C40_Original ==
    /\ StopIdleIsNoop
    /\ FreshToken
    /\ [][\A t \in Threads :
            (th[t].pc = "run" /\ th[t].kind = "forever" /\ th'[t].pc = "woken")
            => \/ th[t].rx = "sent" /\ th[t].sends >= 1
               \/ th[t].sig]_vars

\* C40, amended: as C40, except that core.run also returns, with an error,
\* when a later run call on the same reactor object replaced the token; an
\* interrupt ends the run only when stop_on_sigint is set.
C40_StopNotRemembered ==
    /\ StopIdleIsNoop
    /\ FreshToken
    /\ [][\A t \in Threads :
            (th[t].pc = "run" /\ th[t].kind = "forever" /\ th'[t].pc = "woken")
            => \/ th[t].rx = "sent" /\ th[t].sends >= 1
               \/ th[t].sigint /\ th[t].sig
               \/ /\ th[t].rx = "cancelled"
                  /\ lp[th[t].loop].runner # t
                  /\ th'[t].status = "Error"]_vars

\* The only reactor was stopped while it held no token, and the run_forever
\* called after that blocks in core.run with its token untouched.
C40_Witness ==
    /\ nloops = 1
    /\ ret = [op |-> "stop", res |-> "false"]
    /\ th["T1"].pc = "run" /\ th["T1"].kind = "forever"
    /\ th["T1"].rx = "open" /\ th["T1"].sends = 0
    /\ lp[1].runner = "T1"
====
